---- MODULE Spec2Model ----
(***************************************************************************)
(* Model of the board / legality engine of arozx/chess                      *)
(* (src/chess_board_1.py, class ChessBoard).                                *)
(*                                                                         *)
(* board[x][y] is indexed as in the source: x is the row (0 = white's back  *)
(* rank), y the column.  A cell holds a piece record or None.               *)
(* The module pieces.py is not part of the available sources; the piece     *)
(* rules (get_valid_moves, weight) are modelled from section 4.1 / 3 of the *)
(* specification and from src/test_pieces.py.                               *)
(***************************************************************************)
EXTENDS Integers, Sequences, FiniteSets, TLC

VARIABLES
    board,        \* self.board
    player_turn,  \* self.player_turn
    move_count,   \* self.move_count
    material,     \* self.material
    result,       \* value returned by the last move_piece call ("none" before any)
    call,         \* arguments <<x, y, endx, endy>> of the last call
    plies,        \* the plies the last call accepted, in order
    mutated,      \* whether the last call changed any field of the board object
    king_moved,   \* colours whose king has made an accepted move
    calls,        \* number of move_piece calls made after the opening
    step,         \* number of calls of the opening made
    nodes,        \* the Node objects of the MCTS tree, the root first
    iterations,   \* iterations of MCTS.run completed
    limits,       \* iterations and time_limit of the MCTS that runs
    depth,        \* moves applied by the rollout of MCTS.simulate
    sent,         \* the moves sent on the socket of a NetworkedChessBoard, in order
    client        \* the WebSocketThread of a ChessClient and its websocket

vars == <<board, player_turn, move_count, material, result, call, plies,
          mutated, king_moved, calls, step, nodes, iterations, limits, depth, sent, client>>

(* A message: a tuple; no message, the None of the code, is the empty one *)
NoMessage == <<>>

(* WebSocketThread.__init__: no move to send, no websocket yet, and         *)
(* connect_and_receive not started.  wire are the messages sent on the      *)
(* websocket in order, queued the messages given to queue_move in order,    *)
(* arrived and received count the messages of the server that reached the   *)
(* websocket and that recv() returned.                                      *)
NewClient ==
    [move_to_send |-> NoMessage, websocket |-> "none", at |-> "connect",
     wire |-> <<>>, queued |-> <<>>, arrived |-> 0, received |-> 0]

(* ---------------------------------------------------------------------- *)
(* Pieces                                                                   *)
(* ---------------------------------------------------------------------- *)

Rows == 0..7

Squares == Rows \X Rows

Sign(n) == IF n = 0 THEN 0 ELSE IF n > 0 THEN 1 ELSE -1

Abs(n) == IF n < 0 THEN -n ELSE n

None == [kind |-> "None", colour |-> "none", first_move |-> FALSE]

(* A freshly constructed piece: piece_type(colour); first_move starts True *)
Piece(k, c) == [kind |-> k, colour |-> c, first_move |-> TRUE]

Other(c) == IF c = "white" THEN "black" ELSE "white"

(* Python list indexing: a negative index counts from the end, an index     *)
(* outside -8..7 raises IndexError.                                         *)
Ix(i) == IF i < 0 THEN i + 8 ELSE i

weight(p) ==
    CASE p.kind = "Pawn"   -> 100
      [] p.kind = "Knight" -> 320
      [] p.kind = "Bishop" -> 330
      [] p.kind = "Rook"   -> 500
      [] p.kind = "Queen"  -> 900
      [] p.kind = "King"   -> 20000
      [] OTHER             -> 0

RookDirs == {<<1, 0>>, <<-1, 0>>, <<0, 1>>, <<0, -1>>}
BishopDirs == {<<1, 1>>, <<1, -1>>, <<-1, 1>>, <<-1, -1>>}
KnightOffsets == {<<1, 2>>, <<1, -2>>, <<-1, 2>>, <<-1, -2>>,
                  <<2, 1>>, <<2, -1>>, <<-2, 1>>, <<-2, -1>>}

(* Sliding pieces walk each direction until the edge, a friendly piece      *)
(* (stop, exclude) or an enemy piece (stop, include): t is reached iff it   *)
(* lies on one of the directions, is not friendly, and every square before  *)
(* it on the way is empty.                                                  *)
SlideReaches(b, x, y, dirs, t) ==
    LET dx == t[1] - x
        dy == t[2] - y
        n == IF Abs(dx) > Abs(dy) THEN Abs(dx) ELSE Abs(dy)
    IN /\ n > 0
       /\ dx = 0 \/ dy = 0 \/ Abs(dx) = Abs(dy)
       /\ <<Sign(dx), Sign(dy)>> \in dirs
       /\ b[t[1]][t[2]].colour # b[x][y].colour
       /\ \A m \in 1..(n - 1) : b[x + m * Sign(dx)][y + m * Sign(dy)] = None

(* Knight and King enumerate fixed offsets, excluding off-board and         *)
(* friendly-occupied squares.                                               *)
StepReaches(b, x, y, offs, t) ==
    /\ <<t[1] - x, t[2] - y>> \in offs
    /\ b[t[1]][t[2]].colour # b[x][y].colour

(* Pawn: single step onto an empty square, double step only if first_move   *)
(* and both squares are empty, diagonal steps only onto enemy pieces.       *)
PawnReaches(b, x, y, t) ==
    LET c == b[x][y].colour
        d == IF c = "white" THEN 1 ELSE -1
    IN \/ /\ t = <<x + d, y>>
          /\ b[t[1]][t[2]] = None
       \/ /\ t = <<x + 2 * d, y>>
          /\ b[x][y].first_move
          /\ b[x + d][y] = None
          /\ b[t[1]][t[2]] = None
       \/ /\ t[1] = x + d
          /\ Abs(t[2] - y) = 1
          /\ b[t[1]][t[2]] # None
          /\ b[t[1]][t[2]].colour # c

(* piece.get_valid_moves(board, x, y): the destinations of the piece on     *)
(* (x, y), all of them on the board.                                        *)
get_valid_moves(b, x, y) ==
    { t \in Squares :
        CASE b[x][y].kind = "Pawn"   -> PawnReaches(b, x, y, t)
          [] b[x][y].kind = "Knight" -> StepReaches(b, x, y, KnightOffsets, t)
          [] b[x][y].kind = "Bishop" -> SlideReaches(b, x, y, BishopDirs, t)
          [] b[x][y].kind = "Rook"   -> SlideReaches(b, x, y, RookDirs, t)
          [] b[x][y].kind = "Queen"  -> SlideReaches(b, x, y, RookDirs \cup BishopDirs, t)
          [] b[x][y].kind = "King"   -> StepReaches(b, x, y, RookDirs \cup BishopDirs, t)
          [] OTHER                   -> FALSE }

(* ---------------------------------------------------------------------- *)
(* Board construction                                                       *)
(* ---------------------------------------------------------------------- *)

BackRank == <<"Rook", "Knight", "Bishop", "King", "Queen", "Bishop", "Knight", "Rook">>

(* ChessBoard.__init__ / _initialize_pieces *)
InitialBoard ==
    [x \in Rows |-> [y \in Rows |->
        CASE x = 0 -> Piece(BackRank[y + 1], "white")
          [] x = 1 -> Piece("Pawn", "white")
          [] x = 6 -> Piece("Pawn", "black")
          [] x = 7 -> Piece(BackRank[y + 1], "black")
          [] OTHER -> None]]

(* board[x][y] = p *)
Put(b, x, y, p) == [b EXCEPT ![x][y] = p]

(* ---------------------------------------------------------------------- *)
(* Check detection                                                          *)
(* ---------------------------------------------------------------------- *)

(* The walk of check_position along a sliding piece's line from (x, y) to   *)
(* the king at (kx, ky): clear iff every square strictly between is empty.  *)
Max(a, b) == IF a > b THEN a ELSE b

path_clear(b, x, y, kx, ky) ==
    LET dx == Sign(kx - x)
        dy == Sign(ky - y)
        n == Max(Abs(kx - x), Abs(ky - y))
    IN \A m \in 1..(n - 1) : b[x + m * dx][y + m * dy] = None

(* First king of the colour in row-major order, <<>> when there is none.    *)
FindKing(b, colour) ==
    LET kings == { s \in Squares : b[s[1]][s[2]].kind = "King"
                                   /\ b[s[1]][s[2]].colour = colour }
    IN IF kings = {} THEN <<>>
       ELSE CHOOSE s \in kings :
              \A t \in kings : s[1] < t[1] \/ (s[1] = t[1] /\ s[2] <= t[2])

(* check_position with a walk that also requires the king's own square to   *)
(* be empty                                                                 *)
check_position_walk_to_king(b, player_colour) ==
    IF \E board_state \in {b} : \E k \in {FindKing(board_state, player_colour)} :
         /\ k # <<>>
         /\ \E s \in Squares :
              /\ board_state[s[1]][s[2]] # None
              /\ board_state[s[1]][s[2]].colour # player_colour
              /\ k \in get_valid_moves(board_state, s[1], s[2])
              /\ (board_state[s[1]][s[2]].kind \in {"Queen", "Rook", "Bishop"}
                    => \A m \in 1..Max(Abs(k[1] - s[1]), Abs(k[2] - s[2])) :
                          board_state[s[1] + m * Sign(k[1] - s[1])]
                                     [s[2] + m * Sign(k[2] - s[2])] = None)
    THEN 1 ELSE 0

(* check_position: 1 if some piece of the other colour has the king's       *)
(* square among its valid moves (and, for Queen, Rook and Bishop, the path   *)
(* to the king is clear), 0 otherwise and when no king is found.            *)
check_position(b, player_colour) ==
    IF \E board_state \in {b} : \E k \in {FindKing(board_state, player_colour)} :
         /\ k # <<>>
         /\ \E s \in Squares :
              /\ board_state[s[1]][s[2]] # None
              /\ board_state[s[1]][s[2]].colour # player_colour
              /\ k \in get_valid_moves(board_state, s[1], s[2])
              /\ (board_state[s[1]][s[2]].kind \in {"Queen", "Rook", "Bishop"}
                    => path_clear(board_state, s[1], s[2], k[1], k[2]))
    THEN 1 ELSE 0

(* ---------------------------------------------------------------------- *)
(* Special rules                                                            *)
(* ---------------------------------------------------------------------- *)

(* enpesaunt(x, y, colour).  board[x][y + 1] with y = 7 and                 *)
(* board[x + direction] with x + direction = 8 raise IndexError, which the  *)
(* method turns into False; index -1 wraps to the last row / column.        *)
enpesaunt(b, x, y, colour) ==
    IF b[x][y].kind # "Pawn" THEN FALSE
    ELSE LET direction == IF colour = "white" THEN 1 ELSE -1
             adj(p) == p.kind = "Pawn" /\ p.colour # colour /\ p.first_move
         IN IF y + 1 > 7 THEN FALSE
            ELSE IF adj(b[x][y + 1]) /\ x + direction > 7 THEN FALSE
            ELSE IF adj(b[x][y + 1]) /\ b[Ix(x + direction)][y + 1] = None THEN TRUE
            ELSE IF adj(b[x][Ix(y - 1)]) /\ x + direction > 7 THEN FALSE
            ELSE adj(b[x][Ix(y - 1)]) /\ b[Ix(x + direction)][Ix(y - 1)] = None

(* castling(board, player_colour): "queenside", "kingside", or "no" for the *)
(* source's False.                                                          *)
castling(b, player_colour) ==
    LET king_row == IF player_colour = "white" THEN 0 ELSE 7
        king_col == 3
        king == b[king_row][king_col]
        rook_queenside == b[king_row][0]
        rook_kingside == b[king_row][7]
    IN IF king.kind # "King" \/ ~king.first_move THEN "no"
       ELSE IF /\ rook_queenside.kind = "Rook"
               /\ rook_queenside.first_move
               /\ \A col \in {1, 2} : b[king_row][col] = None
            THEN "queenside"
       ELSE IF /\ rook_kingside.kind = "Rook"
               /\ rook_kingside.first_move
               /\ \A col \in {5, 6} : b[king_row][col] = None
            THEN "kingside"
       ELSE "no"

(* promote_pawn(x, y, piece=Queen): the new Queen takes the colour of the   *)
(* piece standing on (x, y).                                                *)
promote_pawn(b, x, y) == Put(b, x, y, Piece("Queen", b[x][y].colour))

(* ---------------------------------------------------------------------- *)
(* Evaluation used by the automatic black reply                             *)
(* ---------------------------------------------------------------------- *)

(* piece_values of evaluate_position *)
piece_values(p) ==
    CASE p.kind = "Pawn"   -> 100
      [] p.kind = "Knight" -> 320
      [] p.kind = "Bishop" -> 330
      [] p.kind = "Rook"   -> 500
      [] p.kind = "Queen"  -> 900
      [] p.kind = "King"   -> 20000
      [] OTHER             -> 0

center_squares == {<<3, 3>>, <<3, 4>>, <<4, 3>>, <<4, 4>>}

extended_center_squares ==
    {<<2, 2>>, <<2, 3>>, <<2, 4>>, <<2, 5>>, <<3, 2>>, <<3, 5>>,
     <<4, 2>>, <<4, 5>>, <<5, 2>>, <<5, 3>>, <<5, 4>>, <<5, 5>>}

is_endgame(b) ==
    LET queens == Cardinality({ s \in Squares : b[s[1]][s[2]].kind = "Queen" })
        minor_pieces == Cardinality({ s \in Squares :
                                        b[s[1]][s[2]].kind \in {"Bishop", "Knight"} })
    IN queens = 0 \/ (queens = 2 /\ minor_pieces <= 2)

(* Contribution of the piece on (x, y) to evaluate_position(board, color)   *)
square_score(b, x, y, color, endgame) ==
    LET piece == b[x][y]
        multiplier == IF piece.colour = color THEN 1 ELSE -1
        own == piece.colour = color
        mobility == Cardinality(get_valid_moves(b, x, y))
        ahead == IF color = "white" THEN (x + 1)..7 ELSE 0..(x - 1)
        is_passed == ~\E check_x \in ahead :
                        \/ (y > 0 /\ b[check_x][y - 1].kind = "Pawn")
                        \/ b[check_x][y].kind = "Pawn"
                        \/ (y < 7 /\ b[check_x][y + 1].kind = "Pawn")
        bonus ==
          CASE piece.kind = "Pawn" /\ own ->
                 (IF color = "white" THEN 10 * (x - 1) ELSE 10 * (6 - x))
                 + (IF is_passed THEN 50 ELSE 0)
            [] piece.kind = "Knight" /\ own ->
                 mobility * 10
                 + (IF color = "white" /\ x > 3
                    THEN (IF y > 0 /\ b[x - 1][y - 1].kind = "Pawn"
                                   /\ b[x - 1][y - 1].colour = color
                          THEN 30 ELSE 0)
                    ELSE IF color = "black" /\ x < 4
                    THEN (IF y > 0 /\ b[x + 1][y - 1].kind = "Pawn"
                                   /\ b[x + 1][y - 1].colour = color
                          THEN 30 ELSE 0)
                    ELSE 0)
            [] piece.kind = "Bishop" /\ own -> mobility * 8
            [] piece.kind = "Rook" /\ own ->
                 IF \E check_x \in Rows : b[check_x][y].kind = "Pawn" THEN 0 ELSE 30
            [] piece.kind = "Queen" /\ own -> mobility * 5
            [] piece.kind = "King" /\ own ->
                 IF endgame THEN mobility * 8
                 ELSE IF color = "white" /\ x < 2 THEN 60
                 ELSE IF color = "black" /\ x > 5 THEN 60
                 ELSE 0
            [] OTHER -> 0
        center == IF <<x, y>> \in center_squares THEN 30 * multiplier
                  ELSE IF <<x, y>> \in extended_center_squares THEN 15 * multiplier
                  ELSE 0
    IN IF piece = None THEN 0
       ELSE piece_values(piece) * multiplier + bonus + center

(* The sum of the contributions of the squares of row x *)
row_score(b, x, color, endgame) ==
      square_score(b, x, 0, color, endgame) + square_score(b, x, 1, color, endgame)
    + square_score(b, x, 2, color, endgame) + square_score(b, x, 3, color, endgame)
    + square_score(b, x, 4, color, endgame) + square_score(b, x, 5, color, endgame)
    + square_score(b, x, 6, color, endgame) + square_score(b, x, 7, color, endgame)

(* evaluate_position(board, color): the double loop over x and y *)
evaluate_position(b, color) ==
    LET scores == { row_score(board_state, 0, color, endgame)
                    + row_score(board_state, 1, color, endgame)
                    + row_score(board_state, 2, color, endgame)
                    + row_score(board_state, 3, color, endgame)
                    + row_score(board_state, 4, color, endgame)
                    + row_score(board_state, 5, color, endgame)
                    + row_score(board_state, 6, color, endgame)
                    + row_score(board_state, 7, color, endgame)
                    : board_state \in {b}, endgame \in {is_endgame(b)} }
    IN CHOOSE score \in scores : TRUE

(* evaluate_move(board_state, move, color); mc is self.move_count           *)
evaluate_move(b, mc, move, color) ==
    LET start_x == move[1]
        start_y == move[2]
        end_x == move[3]
        end_y == move[4]
        temp_board == Put(Put(b, end_x, end_y, b[start_x][start_y]),
                          start_x, start_y, None)
        piece == b[start_x][start_y]
    IN evaluate_position(temp_board, color)
       - (IF mc < 10 /\ ~piece.first_move THEN 20 ELSE 0)
       + (IF mc < 10 /\ piece.kind \in {"Rook", "King"} /\ piece.first_move
          THEN 30 ELSE 0)
       - (IF piece.kind = "King" /\ piece.first_move /\ mc < 10
             /\ Abs(end_y - start_y) # 2
          THEN 100 ELSE 0)

(* ---------------------------------------------------------------------- *)
(* move_piece                                                               *)
(* ---------------------------------------------------------------------- *)

(* The fields of a ChessBoard that move_piece reads and writes              *)
State(b, pt, mc, mat) ==
    [board |-> b, player_turn |-> pt, move_count |-> mc, material |-> mat]

(* temp_board after "temp_board[endx][endy] = temp_board[x][y];             *)
(* temp_board[x][y] = None"                                                 *)
TempMove(b, x, y, endx, endy) == Put(Put(b, endx, endy, b[x][y]), x, y, None)

(* "remove enpesaunt pawn": raises IndexError (raised = TRUE) when          *)
(* endy + 1 = 8; index endy - 1 = -1 wraps to column 7.                     *)
remove_enpesaunt(b, x, y, endx, endy, is_enpesaunt) ==
    IF is_enpesaunt /\ b[x][y].kind = "Pawn" /\ Abs(x - endx) = 2
    THEN IF endy + 1 > 7 THEN [raised |-> TRUE, board |-> b]
         ELSE IF b[endx][endy + 1].kind = "Pawn"
              THEN [raised |-> FALSE, board |-> Put(b, endx, endy + 1, None)]
         ELSE IF b[endx][Ix(endy - 1)].kind = "Pawn"
              THEN [raised |-> FALSE, board |-> Put(b, endx, Ix(endy - 1), None)]
         ELSE [raised |-> FALSE, board |-> b]
    ELSE [raised |-> FALSE, board |-> b]

(* "handle castling": the four assignments of each branch, in order         *)
handle_castling(b, x, y, endx, endy, is_castling) ==
    IF is_castling /\ b[x][y].kind \in {"Rook", "King"}
    THEN IF endy = 2
         THEN LET b1 == Put(b, endx, endy, b[x][y])
                  b2 == Put(b1, x, y, None)
                  b3 == Put(b2, endx, 3, b2[endx][0])
              IN Put(b3, endx, 0, None)
         ELSE IF endy = 6
         THEN LET b1 == Put(b, endx, endy, b[x][y])
                  b2 == Put(b1, x, y, None)
                  b3 == Put(b2, endx, 5, b2[endx][7])
              IN Put(b3, endx, 7, None)
         ELSE b
    ELSE b

(* One execution of the body of move_piece up to and including the switch   *)
(* of the turn (lines 452-567), for x, y, endx, endy in 0..7.               *)
(* ret is the value returned if the method stops there; an exception is     *)
(* caught by the method's handler, which returns False and keeps whatever   *)
(* was assigned before it was raised.                                       *)
move_body(st, x, y, endx, endy) ==
    LET b == st.board
        rejected == [ret |-> FALSE, st |-> st]
    IN
    IF b[x][y] = None THEN rejected
    ELSE IF b[x][y].colour # st.player_turn THEN rejected
    ELSE
    LET is_enpesaunt == enpesaunt(b, x, y, b[x][y].colour)
        is_castling == castling(b, b[x][y].colour) # "no"
        valid_moves == get_valid_moves(b, x, y)
    IN
    IF <<endx, endy>> \notin valid_moves /\ ~is_enpesaunt /\ ~is_castling
    THEN rejected
    ELSE IF check_position(TempMove(b, x, y, endx, endy), st.player_turn) > 0
    THEN rejected
    ELSE
    LET captured_piece == b[endx][endy]
        ep == remove_enpesaunt(b, x, y, endx, endy, is_enpesaunt)
    IN
    IF ep.raised THEN rejected
    ELSE
    LET bc == handle_castling(ep.board, x, y, endx, endy, is_castling)
        promotes == bc[x][y].kind = "Pawn" /\ endx \in {0, 7}
    IN
    IF promotes /\ bc[endx][endy] = None
    THEN [ret |-> FALSE, st |-> [st EXCEPT !.board = bc]]
    ELSE
    LET bp == IF promotes THEN promote_pawn(bc, endx, endy) ELSE bc
        piece == bp[x][y]
        bm == Put(Put(bp, endx, endy, piece), x, y, None)
    IN [ret |-> TRUE,
        st |-> State(bm,
                     Other(st.player_turn),
                     st.move_count + 1,
                     st.material + (IF captured_piece # None
                                    THEN weight(captured_piece) ELSE 0))]

(* The automatic black reply (lines 583-627): every valid move of every     *)
(* black piece that does not leave black in check is scored by              *)
(* evaluate_move, and the first move with the highest score is kept.        *)
(* Pieces are visited in row-major order; the order of the moves of one     *)
(* piece is that of the list get_valid_moves returns, which the piece       *)
(* rules leave open, so any best move of the first piece that has one can   *)
(* be the one kept.                                                         *)
black_moves(b) ==
    UNION { { <<s[1], s[2], m[1], m[2]>> : m \in get_valid_moves(b, s[1], s[2]) }
            : s \in { t \in Squares : b[t[1]][t[2]].colour = "black" } }

best_of(scored) ==
    LET best_score == CHOOSE v \in { sm[1] : sm \in scored } :
                         \A sm \in scored : sm[1] <= v
        best == { sm[2] : sm \in { t \in scored : t[1] = best_score } }
        first == CHOOSE mv \in best :
                    \A o \in best : mv[1] < o[1] \/ (mv[1] = o[1] /\ mv[2] <= o[2])
    IN IF scored = {} THEN {}
       ELSE { mv \in best : mv[1] = first[1] /\ mv[2] = first[2] }

best_moves(st) ==
    LET b == st.board
        legal == { mv \in black_moves(b) :
                     check_position(TempMove(b, mv[1], mv[2], mv[3], mv[4]), "black") = 0 }
    IN UNION { best_of(scored) : scored \in
                 { { <<evaluate_move(b, st.move_count, mv, "black"), mv>> : mv \in legal } } }

(* What one accepted ply did: who moved what from where to where, and the   *)
(* board it left.                                                           *)
Ply(b, x, y, endx, endy, after) ==
    [colour |-> b[x][y].colour, kind |-> b[x][y].kind,
     from |-> <<x, y>>, to |-> <<endx, endy>>, board |-> after]

(* move_piece(x, y, endx, endy): the outcomes of one call.  ret is the      *)
(* returned value, st the fields of the board afterwards, plies the         *)
(* accepted plies in order: the caller's move and, when it is then black's  *)
(* turn and black has a move, the move the nested call accepted.  The       *)
(* nested call is made with black to move, so it ends with white to move    *)
(* (or fails) and makes no further call; its return value is ignored.       *)
automatic_reply(own, first) ==
    IF ~own.ret THEN {[ret |-> FALSE, st |-> own.st, plies |-> <<>>]}
    ELSE IF own.st.player_turn # "black"
    THEN {[ret |-> TRUE, st |-> own.st, plies |-> first]}
    ELSE UNION { IF best = {}
                 THEN {[ret |-> TRUE, st |-> own.st, plies |-> first]}
                 ELSE UNION { { [ret |-> TRUE,
                                 st |-> reply.st,
                                 plies |-> IF reply.ret
                                           THEN Append(first, Ply(own.st.board, mv[1], mv[2],
                                                                  mv[3], mv[4], reply.st.board))
                                           ELSE first]
                                : reply \in {move_body(own.st, mv[1], mv[2], mv[3], mv[4])} }
                              : mv \in best }
               : best \in {best_moves(own.st)} }

move_piece(st, x, y, endx, endy) ==
    UNION { automatic_reply(own, <<Ply(st.board, x, y, endx, endy, own.st.board)>>)
            : own \in {move_body(st, x, y, endx, endy)} }

(* ---------------------------------------------------------------------- *)
(* State machine                                                            *)
(* ---------------------------------------------------------------------- *)

MaxCalls == 1

MaxKingCalls == 2

NoCall == <<>>

Current == State(board, player_turn, move_count, material)

(* MCTS.iterations and whether MCTS.time_limit is set, before any MCTS is   *)
(* made                                                                     *)
NoLimits == [iterations |-> 0, time_limit |-> FALSE]

(* ChessBoard.__init__ *)
NewGame == State(InitialBoard, "white", 0, -1)

(* A sequence of move_piece(x, y, endx, endy) calls on a new board, each    *)
(* of which returns True and each of whose automatic replies is the only    *)
(* best move.  It leaves white with king (0,3), rooks (0,0) and (0,7) and a *)
(* pawn on (6,1), black with king (7,3), rook (7,0), bishop (2,7) and pawns *)
(* on (6,0), (4,4) and (3,1), white to move.                                *)
Opening ==
    << <<0, 1, 2, 0>>, <<1, 3, 2, 3>>, <<0, 2, 2, 4>>, <<2, 3, 6, 1>>,
       <<0, 4, 2, 7>>, <<0, 6, 6, 5>>, <<2, 4, 1, 1>>, <<0, 5, 7, 6>>,
       <<1, 6, 1, 5>>, <<1, 4, 6, 6>>, <<1, 1, 6, 7>>, <<1, 2, 6, 5>>,
       <<1, 0, 7, 1>>, <<7, 1, 1, 2>>, <<1, 7, 3, 1>> >>

Init ==
    /\ board = NewGame.board
    /\ player_turn = NewGame.player_turn
    /\ move_count = NewGame.move_count
    /\ material = NewGame.material
    /\ result = "none"
    /\ call = NoCall
    /\ plies = <<>>
    /\ mutated = FALSE
    /\ king_moved = {}
    /\ calls = 0
    /\ step = 0
    /\ nodes = <<>>
    /\ iterations = 0
    /\ limits = NoLimits
    /\ depth = 0
    /\ sent = <<>>
    /\ client = NewClient

(* A call that was rejected and changed nothing leaves the program in the   *)
(* state it was called in; whatever can follow it can follow that state, so *)
(* behaviours are not extended beyond such a call.                          *)
Live == ~(result = "False" /\ ~mutated)

Call(x, y, endx, endy) ==
    /\ Live
    /\ \E out \in move_piece(Current, x, y, endx, endy) :
         /\ board' = out.st.board
         /\ player_turn' = out.st.player_turn
         /\ move_count' = out.st.move_count
         /\ material' = out.st.material
         /\ result' = IF out.ret THEN "True" ELSE "False"
         /\ plies' = out.plies
         /\ mutated' = (out.st # Current)
         /\ king_moved' = king_moved \cup
                { out.plies[i].colour : i \in
                    { j \in DOMAIN out.plies : out.plies[j].kind = "King" } }
    /\ call' = <<x, y, endx, endy>>
    /\ UNCHANGED <<nodes, iterations, limits, depth, sent, client>>

(* The next call of the opening *)
PlayOpening ==
    /\ step < Len(Opening)
    /\ calls = 0
    /\ Call(Opening[step + 1][1], Opening[step + 1][2],
            Opening[step + 1][3], Opening[step + 1][4])
    /\ step' = step + 1
    /\ calls' = calls

(* Any call, on a new board or after the opening *)
MovePiece(x, y, endx, endy) ==
    /\ step \in {0, Len(Opening)}
    /\ calls < MaxCalls
    /\ Call(x, y, endx, endy)
    /\ calls' = calls + 1
    /\ step' = step

Next ==
    \/ PlayOpening
    \/ \E x \in Rows, y \in Rows, endx \in Rows, endy \in Rows :
            MovePiece(x, y, endx, endy)

Spec == Init /\ [][Next]_vars

(* Calls that move the white king, after the opening *)
KingRows == {0, 1}

MoveKing(endx, endy) ==
    /\ step = Len(Opening)
    /\ calls < MaxKingCalls
    /\ FindKing(board, "white") # <<>>
    /\ Call(FindKing(board, "white")[1], FindKing(board, "white")[2], endx, endy)
    /\ calls' = calls + 1
    /\ step' = step

NextKing ==
    \/ PlayOpening
    \/ \E endx \in KingRows, endy \in Rows : MoveKing(endx, endy)

SpecKing == Init /\ [][NextKing]_vars

(* Calls that move a pawn of the side to move, after two pawn moves of      *)
(* white on a new board: (1,4) to (2,4), then (2,4) to (4,4), each answered *)
(* by black's automatic move.                                               *)
MaxPawnCalls == 1

PawnOpening == << <<1, 4, 2, 4>>, <<2, 4, 4, 4>> >>

PlayPawnOpening ==
    /\ step < Len(PawnOpening)
    /\ calls = 0
    /\ Call(PawnOpening[step + 1][1], PawnOpening[step + 1][2],
            PawnOpening[step + 1][3], PawnOpening[step + 1][4])
    /\ step' = step + 1
    /\ calls' = calls

MovePawn(x, y, endx, endy) ==
    /\ step = Len(PawnOpening)
    /\ calls < MaxPawnCalls
    /\ board[x][y].kind = "Pawn"
    /\ board[x][y].colour = player_turn
    /\ Call(x, y, endx, endy)
    /\ calls' = calls + 1
    /\ step' = step

NextPawn ==
    \/ PlayPawnOpening
    \/ \E x \in Rows, y \in Rows, endx \in Rows, endy \in Rows :
            MovePawn(x, y, endx, endy)

SpecPawn == Init /\ [][NextPawn]_vars

(* ---------------------------------------------------------------------- *)
(* Check and checkmate status                                               *)
(* ---------------------------------------------------------------------- *)

(* get_king_position(colour): the first king of the colour in row-major    *)
(* order; <<>> stands for the None the method returns when there is none.   *)
get_king_position(b, colour) ==
    IF \E s \in Squares : b[s[1]][s[2]].kind = "King" /\ b[s[1]][s[2]].colour = colour
    THEN CHOOSE s \in Squares :
           /\ b[s[1]][s[2]].kind = "King" /\ b[s[1]][s[2]].colour = colour
           /\ \A t \in Squares :
                (b[t[1]][t[2]].kind = "King" /\ b[t[1]][t[2]].colour = colour)
                   => (s[1] < t[1] \/ (s[1] = t[1] /\ s[2] <= t[2]))
    ELSE <<>>

(* attacking_positions of is_checkmate: the squares of the pieces of the    *)
(* other colour whose valid moves contain the king's square.                *)
attacking_positions(b, player_colour, king_position) ==
    { s \in Squares :
        /\ b[s[1]][s[2]] # None
        /\ b[s[1]][s[2]].colour # player_colour
        /\ king_position \in get_valid_moves(b, s[1], s[2]) }

(* still_in_check of is_checkmate: on the board after the king's move to    *)
(* move, some piece of the other colour has move among its valid moves.     *)
still_in_check(temp_board, player_colour, move) ==
    \E s \in Squares :
        /\ temp_board[s[1]][s[2]] # None
        /\ temp_board[s[1]][s[2]].colour # player_colour
        /\ move \in get_valid_moves(temp_board, s[1], s[2])

(* is_checkmate(player_colour, king_position): False as soon as a piece of  *)
(* the colour other than a king has an attacker's square among its valid    *)
(* moves; otherwise True iff every valid move of the king is still in check *)
(* on the board after it.                                                   *)
is_checkmate(b, player_colour, king_position) ==
    \E attackers \in {attacking_positions(b, player_colour, king_position)} :
        /\ ~ \E s \in Squares :
                /\ b[s[1]][s[2]] # None
                /\ b[s[1]][s[2]].colour = player_colour
                /\ b[s[1]][s[2]].kind # "King"
                /\ attackers \cap get_valid_moves(b, s[1], s[2]) # {}
        /\ b[king_position[1]][king_position[2]] # None
        /\ \A move \in get_valid_moves(b, king_position[1], king_position[2]) :
              still_in_check(TempMove(b, king_position[1], king_position[2],
                                      move[1], move[2]),
                             player_colour, move)

(* are_you_in_check(player_colour): 0 without a king or an attacker, else 2 *)
(* if is_checkmate and 1 if not.                                            *)
are_you_in_check(b, player_colour) ==
    IF \E king_position \in {get_king_position(b, player_colour)} :
         /\ king_position # <<>>
         /\ attacking_positions(b, player_colour, king_position) # {}
    THEN IF is_checkmate(b, player_colour, get_king_position(b, player_colour))
         THEN 2 ELSE 1
    ELSE 0

(* game_over() *)
game_over(b) == are_you_in_check(b, "white") = 2 \/ are_you_in_check(b, "black") = 2

(* ---------------------------------------------------------------------- *)
(* eval_board                                                               *)
(* ---------------------------------------------------------------------- *)

(* piece_values with the knight at 300 *)
base_value_knight_300(p) ==
    CASE p.kind = "Pawn"   -> 100
      [] p.kind = "Knight" -> 300
      [] p.kind = "Bishop" -> 330
      [] p.kind = "Rook"   -> 500
      [] p.kind = "Queen"  -> 900
      [] p.kind = "King"   -> 20000
      [] OTHER             -> 0

(* piece_values of eval_board *)
base_value(p) ==
    CASE p.kind = "Pawn"   -> 100
      [] p.kind = "Knight" -> 320
      [] p.kind = "Bishop" -> 330
      [] p.kind = "Rook"   -> 500
      [] p.kind = "Queen"  -> 900
      [] p.kind = "King"   -> 20000
      [] OTHER             -> 0

pawn_bonus ==
    << <<0, 0, 0, 0, 0, 0, 0, 0>>,
       <<5, 10, 10, -20, -20, 10, 10, 5>>,
       <<5, -5, -10, 0, 0, -10, -5, 5>>,
       <<0, 0, 0, 20, 20, 0, 0, 0>>,
       <<5, 5, 10, 25, 25, 10, 5, 5>>,
       <<10, 10, 20, 30, 30, 20, 10, 10>>,
       <<50, 50, 50, 50, 50, 50, 50, 50>>,
       <<0, 0, 0, 0, 0, 0, 0, 0>> >>

knight_bonus ==
    << <<-50, -40, -30, -30, -30, -30, -40, -50>>,
       <<-40, -20, 0, 0, 0, 0, -20, -40>>,
       <<-30, 0, 10, 15, 15, 10, 0, -30>>,
       <<-30, 5, 15, 20, 20, 15, 5, -30>>,
       <<-30, 0, 15, 20, 20, 15, 0, -30>>,
       <<-30, 5, 10, 15, 15, 10, 5, -30>>,
       <<-40, -20, 0, 5, 5, 0, -20, -40>>,
       <<-50, -40, -30, -30, -30, -30, -40, -50>> >>

bishop_bonus ==
    << <<-20, -10, -10, -10, -10, -10, -10, -20>>,
       <<-10, 0, 0, 0, 0, 0, 0, -10>>,
       <<-10, 0, 5, 10, 10, 5, 0, -10>>,
       <<-10, 5, 5, 10, 10, 5, 5, -10>>,
       <<-10, 0, 10, 10, 10, 10, 0, -10>>,
       <<-10, 10, 10, 10, 10, 10, 10, -10>>,
       <<-10, 5, 0, 0, 0, 0, 5, -10>>,
       <<-20, -10, -10, -10, -10, -10, -10, -20>> >>

rook_bonus ==
    << <<0, 0, 0, 0, 0, 0, 0, 0>>,
       <<5, 10, 10, 10, 10, 10, 10, 5>>,
       <<-5, 0, 0, 0, 0, 0, 0, -5>>,
       <<-5, 0, 0, 0, 0, 0, 0, -5>>,
       <<-5, 0, 0, 0, 0, 0, 0, -5>>,
       <<-5, 0, 0, 0, 0, 0, 0, -5>>,
       <<-5, 0, 0, 0, 0, 0, 0, -5>>,
       <<0, 0, 0, 5, 5, 0, 0, 0>> >>

queen_bonus ==
    << <<-20, -10, -10, -5, -5, -10, -10, -20>>,
       <<-10, 0, 0, 0, 0, 0, 0, -10>>,
       <<-10, 0, 5, 5, 5, 5, 0, -10>>,
       <<-5, 0, 5, 5, 5, 5, 0, -5>>,
       <<0, 0, 5, 5, 5, 5, 0, -5>>,
       <<-10, 5, 5, 5, 5, 5, 0, -10>>,
       <<-10, 0, 5, 0, 0, 0, 0, -10>>,
       <<-20, -10, -10, -5, -5, -10, -10, -20>> >>

king_bonus ==
    << <<-30, -40, -40, -50, -50, -40, -40, -30>>,
       <<-30, -40, -40, -50, -50, -40, -40, -30>>,
       <<-30, -40, -40, -50, -50, -40, -40, -30>>,
       <<-30, -40, -40, -50, -50, -40, -40, -30>>,
       <<-20, -30, -30, -40, -40, -30, -30, -20>>,
       <<-10, -20, -20, -20, -20, -20, -20, -10>>,
       <<20, 20, 0, 0, 0, 0, 20, 20>>,
       <<20, 30, 10, 0, 0, 10, 30, 20>> >>

development_bonus == 10

center_control_bonus == 15

(* position_bonus of the piece p on (i, j) *)
position_bonus(p, i, j) ==
    (CASE p.kind = "Pawn"   -> pawn_bonus[i + 1][j + 1]
       [] p.kind = "Knight" ->
            knight_bonus[i + 1][j + 1]
              + (IF (p.colour = "white" /\ i > 0) \/ (p.colour = "black" /\ i < 7)
                 THEN development_bonus ELSE 0)
       [] p.kind = "Bishop" ->
            bishop_bonus[i + 1][j + 1]
              + (IF (p.colour = "white" /\ i > 0) \/ (p.colour = "black" /\ i < 7)
                 THEN development_bonus ELSE 0)
       [] p.kind = "Rook"   -> rook_bonus[i + 1][j + 1]
       [] p.kind = "Queen"  -> queen_bonus[i + 1][j + 1]
       [] p.kind = "King"   -> king_bonus[i + 1][j + 1]
       [] OTHER             -> 0)
    + (IF 2 <= i /\ i <= 5 /\ 2 <= j /\ j <= 5 THEN center_control_bonus ELSE 0)

(* What the piece on (i, j) adds to white_score - black_score *)
square_value(b, i, j) ==
    IF b[i][j] = None THEN 0
    ELSE IF b[i][j].colour = "white"
         THEN base_value(b[i][j]) + position_bonus(b[i][j], i, j)
         ELSE 0 - (base_value(b[i][j]) + position_bonus(b[i][j], i, j))

row_value(b, i) ==
    square_value(b, i, 0) + square_value(b, i, 1) + square_value(b, i, 2)
      + square_value(b, i, 3) + square_value(b, i, 4) + square_value(b, i, 5)
      + square_value(b, i, 6) + square_value(b, i, 7)

(* eval_board returning white_score - black_score whatever the colour *)
eval_board_of_white(b, player_colour) ==
    row_value(b, 0) + row_value(b, 1) + row_value(b, 2) + row_value(b, 3)
      + row_value(b, 4) + row_value(b, 5) + row_value(b, 6) + row_value(b, 7)

(* eval_board(board, player_colour, score_normalised=False): the score as   *)
(* the float it returns, which is a whole number.                           *)
eval_board(b, player_colour) ==
    LET white_minus_black ==
            row_value(b, 0) + row_value(b, 1) + row_value(b, 2) + row_value(b, 3)
              + row_value(b, 4) + row_value(b, 5) + row_value(b, 6) + row_value(b, 7)
    IN IF player_colour = "white" THEN white_minus_black ELSE 0 - white_minus_black

(* max_possible_score of eval_board: the divisor of its normalised score *)
max_possible_score == 40000

(* eval_board dividing by 30000 *)
eval_board_normalised_by_30000(b, player_colour) ==
    eval_board(b, player_colour) * (1000000 \div 30000)

(* eval_board(board, player_colour, score_normalised=True), in millionths:  *)
(* score / max_possible_score is score times the whole number of millionths *)
(* in 1 / max_possible_score.                                               *)
eval_board_normalised(b, player_colour) ==
    eval_board(b, player_colour) * (1000000 \div max_possible_score)

(* ---------------------------------------------------------------------- *)
(* ChessGameAdapter                                                         *)
(* ---------------------------------------------------------------------- *)

(* GameState(board, player_turn) *)
GameState(b, pt) == [board |-> b, player_turn |-> pt]

(* is_terminal(state) *)
is_terminal(state) == game_over(state.board)

(* get_legal_moves without the test of the piece's colour: the moves of     *)
(* every piece on the board                                                  *)
get_legal_moves_of_both_sides(state) ==
    { m \in Squares \X Squares :
        /\ state.board[m[1][1]][m[1][2]] # None
        /\ m[2] \in get_valid_moves(state.board, m[1][1], m[1][2]) }

(* get_legal_moves(state): the moves ((from_x, from_y), move) of every piece *)
(* of state.player_turn, as a set; the list has them by origin in row-major  *)
(* order.                                                                    *)
get_legal_moves(state) ==
    { m \in Squares \X Squares :
        /\ state.board[m[1][1]][m[1][2]] # None
        /\ state.board[m[1][1]][m[1][2]].colour = state.player_turn
        /\ m[2] \in get_valid_moves(state.board, m[1][1], m[1][2]) }

NoState == <<>>

(* apply_move(state, move); NoState stands for None.  The state passed in   *)
(* is cloned first and is never written.                                    *)
apply_move(state, move) ==
    LET from_pos == move[1]
        to_pos == move[2]
    IN IF ~(from_pos[1] \in Rows /\ from_pos[2] \in Rows)
          \/ ~(to_pos[1] \in Rows /\ to_pos[2] \in Rows)
       THEN NoState
       ELSE IF state.board[from_pos[1]][from_pos[2]] = None THEN NoState
       ELSE IF state.board[from_pos[1]][from_pos[2]].colour # state.player_turn
       THEN NoState
       ELSE IF to_pos \notin get_valid_moves(state.board, from_pos[1], from_pos[2])
       THEN NoState
       ELSE GameState(TempMove(state.board, from_pos[1], from_pos[2],
                               to_pos[1], to_pos[2]),
                      Other(state.player_turn))

(* apply_move writing the move into the state it was given *)
apply_move_without_clone(state, move) ==
    IF apply_move(state, move) = NoState THEN state ELSE apply_move(state, move)

(* The state handed to apply_move, as the call leaves it: the move and the  *)
(* change of turn are written to new_state = state.clone() (lines 140,      *)
(* 180-184), a deep copy that shares no row and no piece with state.        *)
apply_move_argument(state, move) == state

(* The divisor of get_reward's evaluation; rewards are kept in hundredths,  *)
(* so that eval_board(...) / 100.0 is the evaluation itself and the mate    *)
(* rewards 1.0 and -1.0 are 100 and -100.                                   *)
RewardScale == 100

(* get_reward(state, is_white), in hundredths *)
get_reward(state, is_white) ==
    IF are_you_in_check(state.board, IF is_white THEN "black" ELSE "white") = 2
    THEN RewardScale
    ELSE IF are_you_in_check(state.board, IF is_white THEN "white" ELSE "black") = 2
    THEN 0 - RewardScale
    ELSE eval_board(state.board, IF is_white THEN "white" ELSE "black")

(* ---------------------------------------------------------------------- *)
(* Status queries on endgame positions                                      *)
(* ---------------------------------------------------------------------- *)

EmptyBoard == [x \in Rows |-> [y \in Rows |-> None]]

Absent == <<>>

(* The corner the positions are set up in *)
Corner == {0, 1, 2} \X {0, 1, 2}

(* <<wk, bk, bp, bq, wr>>: the squares of the white king (on the first      *)
(* row) and the black king (not next to it); the kind and square of a black *)
(* piece (a pawn not on its last row); and, unless Absent, the squares of a *)
(* black queen and a white rook.  All squares are different.                *)
Placements ==
    { p \in ({0} \X {0, 1, 2}) \X Corner
              \X ({"Rook", "Bishop", "Knight", "Pawn"} \X Corner)
              \X (Corner \cup {Absent}) \X (Corner \cup {Absent}) :
        /\ Abs(p[2][1] - p[1][1]) > 1 \/ Abs(p[2][2] - p[1][2]) > 1
        /\ p[3][2] \notin {p[1], p[2]}
        /\ p[3][1] = "Pawn" => p[3][2][1] > 0
        /\ p[4] \notin {p[1], p[2], p[3][2]}
        /\ p[5] \notin {p[1], p[2], p[3][2]}
        /\ p[4] = Absent \/ p[4] # p[5] }

Setup(p) ==
    LET b1 == Put(Put(Put(EmptyBoard, p[1][1], p[1][2], Piece("King", "white")),
                      p[2][1], p[2][2], Piece("King", "black")),
                  p[3][2][1], p[3][2][2], Piece(p[3][1], "black"))
        b2 == IF p[4] = Absent THEN b1
              ELSE Put(b1, p[4][1], p[4][2], Piece("Queen", "black"))
    IN IF p[5] = Absent THEN b2
       ELSE Put(b2, p[5][1], p[5][2], Piece("Rook", "white"))

(* Positions with white to move as the tests and the adapter set them up    *)
(* (board[x][y] = piece, temp_board.board = state.board); the black king,   *)
(* whose side has just moved, is not attacked.                              *)
EndgameBoards ==
    { b \in { Setup(p) : p \in Placements } :
        attacking_positions(b, "black", get_king_position(b, "black")) = {} }

(* No query answered yet; the answer v of the query name is recorded as    *)
(* <<name, v>>.                                                            *)
NoAnswer == <<>>

InitStatus ==
    /\ board \in EndgameBoards
    /\ player_turn = "white"
    /\ move_count = 0
    /\ material = -1
    /\ result = NoAnswer
    /\ call = NoCall
    /\ plies = <<>>
    /\ mutated = FALSE
    /\ king_moved = {}
    /\ calls = 0
    /\ step = 0
    /\ nodes = <<>>
    /\ iterations = 0
    /\ limits = NoLimits
    /\ depth = 0
    /\ sent = <<>>
    /\ client = NewClient

(* A query: it writes nothing but its answer *)
Query(name, argument, answer) ==
    /\ call = NoCall
    /\ call' = <<name, argument>>
    /\ result' = <<name, answer>>
    /\ UNCHANGED <<board, player_turn, move_count, material, plies, mutated,
                   king_moved, calls, step, nodes, iterations, limits, depth, sent, client>>

AreYouInCheck(colour) ==
    Query("are_you_in_check", colour, are_you_in_check(board, colour))

IsCheckmate(colour) ==
    /\ get_king_position(board, colour) # <<>>
    /\ Query("is_checkmate", colour,
             is_checkmate(board, colour, get_king_position(board, colour)))

CheckPosition(colour) ==
    Query("check_position", colour, check_position(board, colour))

GetLegalMoves ==
    Query("get_legal_moves", player_turn,
          get_legal_moves(GameState(board, player_turn)))

GetReward(is_white) ==
    Query("get_reward", IF is_white THEN "white" ELSE "black",
          get_reward(GameState(board, player_turn), is_white))

NextStatus ==
    \/ \E colour \in {"white", "black"} : AreYouInCheck(colour)
    \/ \E colour \in {"white", "black"} : IsCheckmate(colour)
    \/ \E colour \in {"white", "black"} : CheckPosition(colour)
    \/ GetLegalMoves
    \/ \E is_white \in BOOLEAN : GetReward(is_white)

SpecStatus == InitStatus /\ [][NextStatus]_vars

(* ---------------------------------------------------------------------- *)
(* Calls with coordinates outside the board                                 *)
(* ---------------------------------------------------------------------- *)

(* The indices a list of 8 accepts: -8..-1 count from the end (Ix), any     *)
(* other index outside 0..7 raises IndexError.                              *)
Indexable == (0 - 8)..7

(* "remove enpesaunt pawn" for any endx, endy in Indexable *)
remove_enpesaunt_outside(b, x, y, endx, endy, is_enpesaunt) ==
    IF is_enpesaunt /\ b[x][y].kind = "Pawn" /\ Abs(x - endx) = 2
    THEN IF endy + 1 \notin Indexable THEN [raised |-> TRUE, board |-> b]
         ELSE IF b[Ix(endx)][Ix(endy + 1)].kind = "Pawn"
              THEN [raised |-> FALSE, board |-> Put(b, Ix(endx), Ix(endy + 1), None)]
         ELSE IF endy - 1 \notin Indexable THEN [raised |-> TRUE, board |-> b]
         ELSE IF b[Ix(endx)][Ix(endy - 1)].kind = "Pawn"
              THEN [raised |-> FALSE, board |-> Put(b, Ix(endx), Ix(endy - 1), None)]
         ELSE [raised |-> FALSE, board |-> b]
    ELSE [raised |-> FALSE, board |-> b]

(* The body of move_piece (lines 452-567) for x, y in 0..8 and any endx,    *)
(* endy of which at least one is outside 0..7: (endx, endy) is then in no   *)
(* piece's valid moves, board[8] and an index outside Indexable raise       *)
(* IndexError, and a negative index in Indexable addresses the row or       *)
(* column Ix of it, while "abs(x - endx) == 2", "endy == 2", "endy == 6"    *)
(* and "match endx" compare the numbers as passed.                          *)
move_body_outside(st, x, y, endx, endy) ==
    LET b == st.board
        rejected == [ret |-> FALSE, st |-> st]
    IN
    IF x \notin Rows \/ y \notin Rows THEN rejected
    ELSE IF b[x][y] = None THEN rejected
    ELSE IF b[x][y].colour # st.player_turn THEN rejected
    ELSE
    LET is_enpesaunt == enpesaunt(b, x, y, b[x][y].colour)
        is_castling == castling(b, b[x][y].colour) # "no"
    IN
    IF ~is_enpesaunt /\ ~is_castling THEN rejected
    ELSE IF endx \notin Indexable \/ endy \notin Indexable THEN rejected
    ELSE IF check_position(TempMove(b, x, y, Ix(endx), Ix(endy)), st.player_turn) > 0
    THEN rejected
    ELSE
    LET captured_piece == b[Ix(endx)][Ix(endy)]
        ep == remove_enpesaunt_outside(b, x, y, endx, endy, is_enpesaunt)
    IN
    IF ep.raised THEN rejected
    ELSE
    LET bc == IF endy \in Rows
              THEN handle_castling(ep.board, x, y, Ix(endx), endy, is_castling)
              ELSE ep.board
        promotes == bc[x][y].kind = "Pawn" /\ endx \in {0, 7}
    IN
    IF promotes /\ bc[Ix(endx)][Ix(endy)] = None
    THEN [ret |-> FALSE, st |-> [st EXCEPT !.board = bc]]
    ELSE
    LET bp == IF promotes THEN promote_pawn(bc, Ix(endx), Ix(endy)) ELSE bc
        piece == bp[x][y]
        bm == Put(Put(bp, Ix(endx), Ix(endy), piece), x, y, None)
    IN [ret |-> TRUE,
        st |-> State(bm,
                     Other(st.player_turn),
                     st.move_count + 1,
                     st.material + (IF captured_piece # None
                                    THEN weight(captured_piece) ELSE 0))]

(* move_piece(x, y, endx, endy) for such arguments, with the automatic      *)
(* reply of black.                                                          *)
move_piece_outside(st, x, y, endx, endy) ==
    UNION { IF own.ret
            THEN automatic_reply(own, <<Ply(st.board, x, y, Ix(endx), Ix(endy),
                                            own.st.board)>>)
            ELSE {[ret |-> FALSE, st |-> own.st, plies |-> <<>>]}
            : own \in {move_body_outside(st, x, y, endx, endy)} }

MaxOutsideCalls == 1

(* Arguments of the calls: every row and column, the indices one past each  *)
(* end of a list, and the negative indices a list accepts.                  *)
Coords == (0 - 9)..8

Sources == 0..8

Outside(x, y, endx, endy) == ~({x, y, endx, endy} \subseteq Rows)

MovePieceOutside(x, y, endx, endy) ==
    /\ step \in {0, Len(Opening)}
    /\ calls < MaxOutsideCalls
    /\ Outside(x, y, endx, endy)
    /\ Live
    /\ \E out \in move_piece_outside(Current, x, y, endx, endy) :
         /\ board' = out.st.board
         /\ player_turn' = out.st.player_turn
         /\ move_count' = out.st.move_count
         /\ material' = out.st.material
         /\ result' = IF out.ret THEN "True" ELSE "False"
         /\ plies' = out.plies
         /\ mutated' = (out.st # Current)
         /\ king_moved' = king_moved \cup
                { out.plies[i].colour : i \in
                    { j \in DOMAIN out.plies : out.plies[j].kind = "King" } }
    /\ call' = <<x, y, endx, endy>>
    /\ calls' = calls + 1
    /\ step' = step
    /\ UNCHANGED <<nodes, iterations, limits, depth, sent, client>>

(* apply_move(state, ((x, y), (endx, endy))) on the state of the board: it  *)
(* works on a clone and writes nothing.                                     *)
ApplyMoveOutside(x, y, endx, endy) ==
    /\ step \in {0, Len(Opening)}
    /\ calls < MaxOutsideCalls
    /\ Outside(x, y, endx, endy)
    /\ Live
    /\ result' = apply_move(GameState(board, player_turn), <<<<x, y>>, <<endx, endy>>>>)
    /\ call' = <<"apply_move", x, y, endx, endy>>
    /\ mutated' = FALSE
    /\ plies' = <<>>
    /\ calls' = calls + 1
    /\ UNCHANGED <<board, player_turn, move_count, material, king_moved, step,
                   nodes, iterations, limits, depth, sent, client>>

NextOutside ==
    \/ PlayOpening
    \/ /\ calls < MaxOutsideCalls
       /\ \E x \in Sources, y \in Sources, endx \in Coords, endy \in Coords :
            MovePieceOutside(x, y, endx, endy)
    \/ /\ calls < MaxOutsideCalls
       /\ \E x \in Sources, y \in Sources, endx \in Coords, endy \in Coords :
            ApplyMoveOutside(x, y, endx, endy)

SpecOutside == Init /\ [][NextOutside]_vars

(* ---------------------------------------------------------------------- *)
(* Monte Carlo tree search                                                  *)
(* ---------------------------------------------------------------------- *)

NoMove == <<>>

NoParent == 0

(* Node(state, move, parent); parent and children are positions in nodes *)
Node(state, move, parent) ==
    [state |-> state, move |-> move, parent |-> parent, children |-> <<>>,
     visits |-> 0, value |-> 0]

(* Node.update(value) *)
update(node, value) == [node EXCEPT !.visits = @ + 1, !.value = @ + value]

(* The list get_legal_moves returns: pieces in row-major order of their     *)
(* origin, the moves of one piece here in row-major order of destination.   *)
move_key(m) == ((m[1][1] * 8 + m[1][2]) * 8 + m[2][1]) * 8 + m[2][2]

legal_move_list(state) ==
    LET moves == get_legal_moves(state)
    IN [i \in 1..Cardinality(moves) |->
          CHOOSE m \in moves :
             Cardinality({o \in moves : move_key(o) < move_key(m)}) = i - 1]

(* The children a node at position parent gets for the moves of its state,  *)
(* placed from position first on: one Node per move apply_move accepts.     *)
child_nodes(state, parent) ==
    LET moves == legal_move_list(state)
        accepted == SelectSeq(moves, LAMBDA m : apply_move(state, m) # NoState)
    IN [i \in 1..Len(accepted) |-> Node(apply_move(state, accepted[i]), accepted[i], parent)]

(* ns with the children of child_nodes appended to it and to the list of    *)
(* the node at position parent.                                             *)
add_children(ns, parent) ==
    LET new == child_nodes(ns[parent].state, parent)
    IN [ns EXCEPT ![parent].children = @ \o [i \in 1..Len(new) |-> Len(ns) + i]] \o new

(* math.log(n) in units of 10^-8, for the visit counts a run reaches *)
ln ==
    <<0, 69314718, 109861229, 138629436, 160943791, 179175947, 194591015,
      207944154, 219722458, 230258509, 239789527, 248490665>>

RECURSIVE sqrt_between(_, _, _)
sqrt_between(lo, hi, x) ==
    IF lo = hi THEN lo
    ELSE LET mid == (lo + hi + 1) \div 2
         IN IF mid * mid <= x THEN sqrt_between(mid, hi, x)
            ELSE sqrt_between(lo, mid - 1, x)

(* math.sqrt(x): with x in units of 10^-8 the result is in units of 10^-4 *)
sqrt(x) == sqrt_between(0, 30000, x)

(* exploration_weight, in hundredths *)
exploration_weight == 141

(* The UCT value of the node at position child under the node at position   *)
(* current (lines 239-243), in units of 10^-6; value is in hundredths.      *)
uct_value(ns, current, child) ==
    (ns[child].value * 10000) \div ns[child].visits
      + exploration_weight * sqrt((2 * ln[ns[current].visits]) \div ns[child].visits)

(* The positions in a list of positions *)
Members(list) == { list[i] : i \in DOMAIN list }

(* The first of the positions in list whose score is the greatest: what a   *)
(* loop keeping "score > best" leaves, and what max(list, key=...) returns. *)
(* score maps each position of the list to its score.                       *)
first_best(list, score) ==
    list[CHOOSE i \in DOMAIN list :
            /\ \A j \in DOMAIN list : score[list[j]] <= score[list[i]]
            /\ \A j \in 1..(i - 1) : score[list[j]] < score[list[i]]]

(* select that scores every child by its average value alone, a child      *)
(* without visits as 0, and gives no precedence to an unvisited child       *)
RECURSIVE select_by_value(_, _)
select_by_value(ns, current) ==
    IF ns[current].children = <<>> THEN current
    ELSE select_by_value(ns, first_best(ns[current].children,
                [c \in Members(ns[current].children) |->
                    IF ns[c].visits = 0 THEN 0
                           ELSE (ns[c].value * 10000) \div ns[c].visits]))

(* select(node): down from node, the first child without visits if there   *)
(* is one, else the first child with the greatest UCT value, until a node   *)
(* without children is reached.                                             *)
RECURSIVE select(_, _)
select(ns, current) ==
    IF ns[current].children = <<>> THEN current
    ELSE IF \E i \in DOMAIN ns[current].children :
               ns[ns[current].children[i]].visits = 0
    THEN ns[current].children[
            CHOOSE i \in DOMAIN ns[current].children :
               /\ ns[ns[current].children[i]].visits = 0
               /\ \A j \in 1..(i - 1) : ns[ns[current].children[j]].visits # 0]
    ELSE select(ns, first_best(ns[current].children,
                [c \in Members(ns[current].children) |->
                    uct_value(ns, current, c)]))

(* Node.best_child(exploration_weight) of the node at position current,     *)
(* which has children: a child without visits counts as infinite.           *)
best_child(ns, current) ==
    IF \E i \in DOMAIN ns[current].children :
          ns[ns[current].children[i]].visits = 0
    THEN ns[current].children[
            CHOOSE i \in DOMAIN ns[current].children :
               /\ ns[ns[current].children[i]].visits = 0
               /\ \A j \in 1..(i - 1) : ns[ns[current].children[j]].visits # 0]
    ELSE first_best(ns[current].children,
                [c \in Members(ns[current].children) |->
                    uct_value(ns, current, c)])

(* backpropagate that counts the visit of the node's parent twice *)
backpropagate_parent_twice(ns, node, reward) ==
    IF node = NoParent THEN ns
    ELSE IF ns[node].parent = NoParent
    THEN [ns EXCEPT ![node].visits = @ + 1, ![node].value = @ + reward]
    ELSE [ns EXCEPT ![node].visits = @ + 1, ![node].value = @ + reward,
                    ![ns[node].parent].visits = @ + 2,
                    ![ns[node].parent].value = @ + reward]

(* backpropagate that updates the node it is given and stops *)
backpropagate_node_only(ns, node, reward) ==
    IF node = NoParent THEN ns
    ELSE [ns EXCEPT ![node].visits = @ + 1, ![node].value = @ + reward]

(* backpropagate(node, reward) *)
RECURSIVE backpropagate(_, _, _)
backpropagate(ns, node, reward) ==
    IF node = NoParent THEN ns
    ELSE backpropagate([ns EXCEPT ![node].visits = @ + 1, ![node].value = @ + reward],
                       ns[node].parent, reward)

(* best_move() choosing the child with the highest average value *)
best_move_highest_value(ns) ==
    IF ns = <<>> THEN NoMove
    ELSE IF ns[1].children = <<>> THEN NoMove
    ELSE ns[first_best(ns[1].children,
                [c \in Members(ns[1].children) |->
                    IF ns[c].visits = 0 THEN 0 - 1000000
                                  ELSE (ns[c].value * 10000) \div ns[c].visits])].move

(* best_move(): NoMove stands for None *)
best_move(ns) ==
    IF ns = <<>> THEN NoMove
    ELSE IF ns[1].children = <<>> THEN NoMove
    ELSE ns[first_best(ns[1].children,
                [c \in Members(ns[1].children) |->
                    ns[c].visits])].move

MaxIterations == 5

(* Rewards of a simulation, in hundredths: the mate rewards of get_reward   *)
(* and a level evaluation.  simulate plays random.choice moves, so which    *)
(* of them an iteration gets is open.                                       *)
Rewards == {0 - RewardScale, 0, RewardScale}

(* game.chess_board.board of the runs: kings on (0,0) and (2,2) with a      *)
(* black pawn on (2,1); and a white king alone on (0,1), black having lost  *)
(* all its pieces (move_piece lets a king be taken).                        *)
SearchBoards ==
    { Setup(<< <<0, 0>>, <<2, 2>>, <<"Pawn", <<2, 1>> >>, Absent, Absent >>),
      Put(EmptyBoard, 0, 1, Piece("King", "white")) }

InitSearch ==
    /\ board \in SearchBoards
    /\ player_turn = "white"
    /\ move_count = 0
    /\ material = -1
    /\ result = NoAnswer
    /\ call = NoCall
    /\ plies = <<>>
    /\ mutated = FALSE
    /\ king_moved = {}
    /\ calls = 0
    /\ step = 0
    /\ nodes = <<>>
    /\ iterations = 0
    /\ limits = NoLimits
    /\ depth = 0
    /\ sent = <<>>
    /\ client = NewClient

(* The root state after apply_move has been called on it for each move of   *)
(* the list moves (lines 116-125).                                          *)
RECURSIVE after_apply_moves(_, _)
after_apply_moves(state, moves) ==
    IF moves = <<>> THEN state
    ELSE after_apply_moves(apply_move_argument(state, Head(moves)), Tail(moves))

(* The state of the node simulate is given, as the rollout may leave it     *)
(* (lines 262-301): the first round hands it to is_terminal, get_legal_moves *)
(* and apply_move, which read it; every later round works on the state      *)
(* apply_move returned.                                                     *)
simulate_argument(state) ==
    IF is_terminal(state) \/ get_legal_moves(state) = {} THEN {state}
    ELSE { apply_move_argument(state, m) : m \in get_legal_moves(state) }

Running == call # NoCall /\ call[1] \in {"run", "iterate"}

(* MCTS(game, iterations=n, time_limit=..., is_white=...).run() up to its    *)
(* loop (lines 101-128): the root and a child for each move of the side     *)
(* is_white names.  The root state holds the list that is                   *)
(* game.chess_board.board itself (line 105), so what the calls leave in the *)
(* root state's board is what they leave in the board.                      *)
RunStart(is_white, n, time_limit) ==
    /\ call = NoCall
    /\ limits' = [iterations |-> n, time_limit |-> time_limit]
    /\ nodes' = add_children(
                   <<Node(GameState(board, IF is_white THEN "white" ELSE "black"),
                          NoMove, NoParent)>>, 1)
    /\ call' = <<"run", IF is_white THEN "white" ELSE "black">>
    /\ \E root \in {GameState(board, IF is_white THEN "white" ELSE "black")} :
          board' = after_apply_moves(root, legal_move_list(root)).board
    /\ UNCHANGED <<player_turn, move_count, material, result, plies,
                   mutated, king_moved, calls, step, iterations, depth, sent, client>>

(* A loop that makes one iteration more than asked for *)
loop_runs_once_more(n, i) == i <= n

(* for i in range(self.iterations), with i iterations made (line 157) *)
loop_continues(n, i) == i < n

(* One iteration of the loop of MCTS.run (lines 157-182) *)
Iterate(reward) ==
    /\ Running
    /\ loop_continues(limits.iterations, iterations)
    /\ \E leaf \in {select(nodes, 1)} :
         \E expanded \in { IF nodes[leaf].children # <<>>
                              /\ ~is_terminal(nodes[leaf].state)
                           THEN add_children(nodes, leaf) ELSE nodes } :
           \E simulation_leaf \in
                 (IF expanded[leaf].children # <<>>
                  THEN { expanded[leaf].children[i] : i \in DOMAIN expanded[leaf].children }
                  ELSE {leaf}) :
              /\ nodes' = backpropagate(expanded, simulation_leaf, reward)
              /\ call' = <<"iterate", simulation_leaf, reward>>
              /\ \E after \in simulate_argument(expanded[simulation_leaf].state) :
                    board' = IF simulation_leaf = 1 THEN after.board ELSE board
    /\ iterations' = iterations + 1
    /\ UNCHANGED <<player_turn, move_count, material, result, plies,
                   mutated, king_moved, calls, step, limits, depth, sent, client>>

(* The return of MCTS.run (line 184): after the iterations asked for, or    *)
(* before an iteration when a time limit is set and has run out (lines      *)
(* 158-159; how much time has passed is not modelled); or a call of         *)
(* best_move() by itself.                                                   *)
BestMove ==
    /\ \/ call = NoCall
       \/ /\ Running
          /\ ~loop_continues(limits.iterations, iterations) \/ limits.time_limit
    /\ result' = <<"best_move", best_move(nodes)>>
    /\ call' = <<"best_move">>
    /\ UNCHANGED <<board, player_turn, move_count, material, plies, mutated,
                   king_moved, calls, step, nodes, iterations, limits, depth, sent, client>>

(* Node(state).update(value) on a node of its own, as the tests call it *)
NodeUpdate(value) ==
    /\ call = NoCall
    /\ nodes' = <<update(Node(GameState(board, "white"), NoMove, NoParent), value)>>
    /\ call' = <<"update", value>>
    /\ UNCHANGED <<board, player_turn, move_count, material, result, plies,
                   mutated, king_moved, calls, step, iterations, limits, depth, sent, client>>

NextSearch ==
    \/ \E is_white \in BOOLEAN, n \in 0..MaxIterations, time_limit \in BOOLEAN :
          RunStart(is_white, n, time_limit)
    \/ \E reward \in Rewards : Iterate(reward)
    \/ BestMove
    \/ \E value \in Rewards : NodeUpdate(value)

SpecSearch == InitSearch /\ [][NextSearch]_vars

(* ---------------------------------------------------------------------- *)
(* A search over an adapter whose calls can fail                            *)
(* ---------------------------------------------------------------------- *)

MaxFaultyIterations == 3

(* What can go wrong while run() builds the root (lines 113-125): the call  *)
(* of get_legal_moves, or apply_move for the first move of the list.        *)
RootFaults ==
    {"none", "get_legal_moves raises", "get_legal_moves None",
     "get_legal_moves empty", "apply_move raises", "apply_move None"}

(* What can go wrong in the first round of a rollout and in the reward      *)
(* after it (lines 266-322).                                                *)
RolloutFaults ==
    {"none", "is_terminal raises", "get_legal_moves raises",
     "get_legal_moves None", "get_legal_moves empty", "apply_move raises",
     "apply_move None", "get_reward raises", "get_reward None"}

(* ns with a child of the node at position parent for each move of the      *)
(* list moves that apply_move accepts (lines 116-125).                      *)
add_children_for(ns, parent, moves) ==
    LET accepted == SelectSeq(moves, LAMBDA m : apply_move(ns[parent].state, m) # NoState)
        new == [i \in 1..Len(accepted) |->
                   Node(apply_move(ns[parent].state, accepted[i]), accepted[i], parent)]
    IN [ns EXCEPT ![parent].children = @ \o [i \in 1..Len(new) |-> Len(ns) + i]] \o new

(* The moves run() gets children for: none when get_legal_moves returns an  *)
(* empty list, all but the first when apply_move fails on the first (an     *)
(* exception is caught on line 124, None is skipped on line 120).           *)
root_moves(state, fault) ==
    IF fault = "get_legal_moves empty" THEN <<>>
    ELSE IF fault \in {"apply_move raises", "apply_move None"}
              /\ legal_move_list(state) # <<>>
    THEN Tail(legal_move_list(state))
    ELSE legal_move_list(state)

(* run() up to its loop.  Line 113 calls get_legal_moves outside any try,   *)
(* and line 114 takes the len() of what it returned: an exception or None   *)
(* leaves run() by an exception, with the root made and no child.           *)
FaultyRunStart(is_white, fault) ==
    /\ call = NoCall
    /\ \E root \in {Node(GameState(board, IF is_white THEN "white" ELSE "black"),
                         NoMove, NoParent)} :
          IF fault \in {"get_legal_moves raises", "get_legal_moves None"}
          THEN /\ nodes' = <<root>>
               /\ result' = <<"raised", fault>>
          ELSE /\ nodes' = add_children_for(<<root>>, 1, root_moves(root.state, fault))
               /\ result' = result
    /\ call' = <<"run", IF is_white THEN "white" ELSE "black", fault>>
    /\ UNCHANGED <<board, player_turn, move_count, material, plies,
                   mutated, king_moved, calls, step, iterations, limits, depth, sent, client>>

(* simulate(node) when the first round of the rollout fails (lines 266-322): *)
(* every failure before the reward breaks the loop with current_state still  *)
(* node.state, whose get_reward is returned; get_reward raising gives 0.0;   *)
(* get_reward returning None gives None.  The value returned is <<reward>>,  *)
(* and <<>> for None.                                                        *)
simulate_failing(state, is_white, fault) ==
    IF fault = "get_reward None" THEN <<>>
    ELSE IF fault = "get_reward raises" THEN <<0>>
    ELSE <<get_reward(state, is_white)>>

(* One iteration of the loop of run() (lines 157-182).  A reward of None    *)
(* stops backpropagate on line 344, after line 343 has counted the visit of *)
(* the node simulated, and run() is left by a TypeError.                    *)
FaultyIterate(fault, reward) ==
    /\ call # NoCall /\ call[1] \in {"run", "iterate"}
    /\ result = NoAnswer
    /\ iterations < MaxFaultyIterations
    /\ fault # "none" => reward = 0
    /\ \E leaf \in {select(nodes, 1)} :
         \E expanded \in { IF nodes[leaf].children # <<>>
                              /\ ~is_terminal(nodes[leaf].state)
                           THEN add_children(nodes, leaf) ELSE nodes } :
           \E simulation_leaf \in
                 (IF expanded[leaf].children # <<>>
                  THEN { expanded[leaf].children[i] : i \in DOMAIN expanded[leaf].children }
                  ELSE {leaf}) :
             \E returned \in
                 { IF fault = "none" THEN <<reward>>
                   ELSE simulate_failing(expanded[simulation_leaf].state,
                                         expanded[1].state.player_turn = "white", fault) } :
                IF returned = <<>>
                THEN /\ nodes' = [expanded EXCEPT ![simulation_leaf].visits = @ + 1]
                     /\ result' = <<"raised", "TypeError">>
                     /\ call' = <<"iterate", simulation_leaf, 0, fault>>
                ELSE /\ nodes' = backpropagate(expanded, simulation_leaf, returned[1])
                     /\ result' = result
                     /\ call' = <<"iterate", simulation_leaf, returned[1], fault>>
    /\ iterations' = iterations + 1
    /\ UNCHANGED <<board, player_turn, move_count, material, plies,
                   mutated, king_moved, calls, step, limits, depth, sent, client>>

(* The return of run() on line 184 *)
FaultyReturn ==
    /\ call # NoCall /\ call[1] \in {"run", "iterate"}
    /\ result = NoAnswer
    /\ result' = <<"best_move", best_move(nodes)>>
    /\ call' = <<"best_move">>
    /\ UNCHANGED <<board, player_turn, move_count, material, plies, mutated,
                   king_moved, calls, step, nodes, iterations, limits, depth, sent, client>>

NextFaulty ==
    \/ \E is_white \in BOOLEAN, fault \in RootFaults : FaultyRunStart(is_white, fault)
    \/ \E fault \in RolloutFaults, reward \in Rewards : FaultyIterate(fault, reward)
    \/ FaultyReturn

SpecFaulty == InitSearch /\ [][NextFaulty]_vars

(* ---------------------------------------------------------------------- *)
(* GameState equality, evaluation and FEN export of whole positions         *)
(* ---------------------------------------------------------------------- *)

(* A comparison of the cells as whole pieces, flags included *)
eq_with_flags(self, other) ==
    self.board = other.board /\ self.player_turn = other.player_turn

(* GameState.__eq__(self, other) for two GameStates of 8 rows of 8 cells:   *)
(* False at the first cell where one is None and the other is not, or where *)
(* the class names or the colours differ; else whether the turns agree.     *)
eq(self, other) ==
    IF \E i \in Rows, j \in Rows :
          LET self_piece == self.board[i][j]
              other_piece == other.board[i][j]
          IN /\ ~(self_piece = None /\ other_piece = None)
             /\ \/ (self_piece = None) # (other_piece = None)
                \/ self_piece.kind # other_piece.kind
                \/ self_piece.colour # other_piece.colour
    THEN FALSE
    ELSE self.player_turn = other.player_turn

(* The white pieces of a new board alone, as the tests set them up *)
WhiteArmy ==
    [x \in Rows |-> [y \in Rows |-> IF x <= 1 THEN InitialBoard[x][y] ELSE None]]

Kinds == {"Pawn", "Knight", "Bishop", "Rook", "Queen", "King"}

(* The squares a further piece is put on *)
ExtraSquares ==
    {<<0, 3>>, <<1, 0>>, <<2, 2>>, <<2, 5>>, <<3, 3>>, <<3, 7>>, <<4, 0>>,
     <<4, 4>>, <<5, 1>>, <<5, 5>>, <<6, 7>>, <<7, 4>>}

PositionBases == {EmptyBoard, InitialBoard, WhiteArmy} \cup SearchBoards

(* The positions looked at: each base, and each base with one more new      *)
(* piece on a square that was empty.                                        *)
PositionBoards ==
    PositionBases \cup
    { Put(e[1][1], e[1][2][1], e[1][2][2], Piece(e[2], e[3])) :
        e \in { bs \in PositionBases \X ExtraSquares :
                   bs[1][bs[2][1]][bs[2][2]] = None }
                \X Kinds \X {"white", "black"} }

InitPosition ==
    /\ board \in PositionBoards
    /\ player_turn \in {"white", "black"}
    /\ move_count = 0
    /\ material = -1
    /\ result = NoAnswer
    /\ call = NoCall
    /\ plies = <<>>
    /\ mutated = FALSE
    /\ king_moved = {}
    /\ calls = 0
    /\ step = 0
    /\ nodes = <<>>
    /\ iterations = 0
    /\ limits = NoLimits
    /\ depth = 0
    /\ sent = <<>>
    /\ client = NewClient

(* The ways the other GameState of a comparison differs from the first *)
Changes == {"same", "first_move", "kind", "colour", "removed", "added"}

EqSquares == {<<0, 3>>, <<3, 3>>, <<7, 4>>}

(* The board b with the change made on the square sq; b itself when the     *)
(* change does not apply to what the square holds.                          *)
Vary(b, sq, change) ==
    LET p == b[sq[1]][sq[2]]
    IN IF p = None
       THEN IF change = "added" THEN Put(b, sq[1], sq[2], Piece("Pawn", "white")) ELSE b
       ELSE CASE change = "first_move" ->
                    Put(b, sq[1], sq[2], [p EXCEPT !.first_move = ~@])
              [] change = "kind" ->
                    Put(b, sq[1], sq[2],
                        [p EXCEPT !.kind = IF @ = "Pawn" THEN "Knight" ELSE "Pawn"])
              [] change = "colour" ->
                    Put(b, sq[1], sq[2], [p EXCEPT !.colour = Other(@)])
              [] change = "removed" -> Put(b, sq[1], sq[2], None)
              [] OTHER -> b

(* GameState(board, turn) == GameState(other board, other_turn) *)
Eq(sq, change, turn, other_turn) ==
    Query("eq", <<sq, change, turn, other_turn>>,
          eq(GameState(board, turn), GameState(Vary(board, sq, change), other_turn)))

(* eval_board(board, player_colour, False) *)
EvalBoard(player_colour) ==
    Query("eval_board", player_colour, eval_board(board, player_colour))

(* piece.symbol: the FEN letter of the piece, upper case for white *)
symbol(p) ==
    LET letter == CASE p.kind = "Pawn"   -> <<"P", "p">>
                    [] p.kind = "Knight" -> <<"N", "n">>
                    [] p.kind = "Bishop" -> <<"B", "b">>
                    [] p.kind = "Rook"   -> <<"R", "r">>
                    [] p.kind = "Queen"  -> <<"Q", "q">>
                    [] p.kind = "King"   -> <<"K", "k">>
    IN IF p.colour = "white" THEN letter[1] ELSE letter[2]

Empty == "."

Digits == <<"1", "2", "3", "4", "5", "6", "7", "8">>

(* chess.square(file, rank) *)
square(file, rank) == rank * 8 + file

(* The chess.Board that board_array_to_fen fills (lines 219-226): cleared,  *)
(* then the symbol of board[rank][file] set at square(file, 7 - rank).  The *)
(* turn is the WHITE a new chess.Board() starts with; nothing sets it.      *)
filled_board(b) ==
    [pieces |-> [sq \in 0..63 |->
                    IF b[7 - (sq \div 8)][sq % 8] = None THEN Empty
                    ELSE symbol(b[7 - (sq \div 8)][sq % 8])],
     turn |-> "w"]

(* The FEN field of one rank from the file on: letters, and the count of    *)
(* each run of empty squares.                                               *)
RECURSIVE rank_field(_, _, _, _)
rank_field(pieces, rank, file, empties) ==
    LET run == IF empties > 0 THEN <<Digits[empties]>> ELSE <<>>
    IN IF file = 8 THEN run
       ELSE IF pieces[square(file, rank)] = Empty
       THEN rank_field(pieces, rank, file + 1, empties + 1)
       ELSE run \o <<pieces[square(file, rank)]>> \o rank_field(pieces, rank, file + 1, 0)

(* chess.Board.fen(): the ranks from the eighth down, and the side to move *)
fen(chess_board) ==
    [placement |-> [k \in 1..8 |-> rank_field(chess_board.pieces, 8 - k, 0, 0)],
     turn |-> chess_board.turn]

(* board_array_to_fen() *)
board_array_to_fen(b) == fen(filled_board(b))

(* The squares of one rank that a FEN field stands for *)
RECURSIVE field_squares(_)
field_squares(field) ==
    IF field = <<>> THEN <<>>
    ELSE IF \E n \in 1..8 : Digits[n] = Head(field)
    THEN [i \in 1..(CHOOSE n \in 1..8 : Digits[n] = Head(field)) |-> Empty]
            \o field_squares(Tail(field))
    ELSE <<Head(field)>> \o field_squares(Tail(field))

(* chess.Board(fen), as lines 179, 198 and 243 read a FEN back *)
Board(f) ==
    [pieces |-> [sq \in 0..63 |-> field_squares(f.placement[8 - (sq \div 8)])[(sq % 8) + 1]],
     turn |-> f.turn]

(* board_array_to_fen() of the board, whose player_turn is the side to move *)
BoardArrayToFen ==
    Query("board_array_to_fen", player_turn, board_array_to_fen(board))

NextPosition ==
    \/ \E sq \in EqSquares, change \in Changes, turn \in {"white", "black"},
          other_turn \in {"white", "black"} : Eq(sq, change, turn, other_turn)
    \/ \E player_colour \in {"white", "black"} : EvalBoard(player_colour)
    \/ BoardArrayToFen

SpecPosition == InitPosition /\ [][NextPosition]_vars

(* ---------------------------------------------------------------------- *)
(* Normalised evaluation of armies with promoted pawns                      *)
(* ---------------------------------------------------------------------- *)

Promotions == {"Queen", "Rook", "Bishop", "Knight"}

(* How many of the 8 pawns of an army have been promoted to each kind *)
Compositions ==
    { c \in [Promotions -> 0..8] :
        c["Queen"] + c["Rook"] + c["Bishop"] + c["Knight"] <= 8 }

Repeat(k, n) == [i \in 1..n |-> k]

(* The 16 pieces of an army with the promotions c *)
ArmyKinds(c) ==
    <<"King">> \o Repeat("Queen", 1 + c["Queen"]) \o Repeat("Rook", 2 + c["Rook"])
      \o Repeat("Bishop", 2 + c["Bishop"]) \o Repeat("Knight", 2 + c["Knight"])
      \o Repeat("Pawn", 8 - (c["Queen"] + c["Rook"] + c["Bishop"] + c["Knight"]))

(* The army of colour with the promotions c on the 16 centre squares, which *)
(* earn the centre control bonus, row by row; with or without the king of   *)
(* the other colour in the corner (0, 0).                                   *)
ArmyBoard(c, colour, opposed) ==
    [x \in Rows |-> [y \in Rows |->
        IF 2 <= x /\ x <= 5 /\ 2 <= y /\ y <= 5
        THEN Piece(ArmyKinds(c)[(x - 2) * 4 + (y - 2) + 1], colour)
        ELSE IF opposed /\ x = 0 /\ y = 0 THEN Piece("King", Other(colour))
        ELSE None]]

ArmyBoards ==
    {EmptyBoard, InitialBoard} \cup
    { ArmyBoard(a[1], a[2], a[3]) : a \in Compositions \X {"white", "black"} \X BOOLEAN }

InitArmies ==
    /\ board \in ArmyBoards
    /\ player_turn = "white"
    /\ move_count = 0
    /\ material = -1
    /\ result = NoAnswer
    /\ call = NoCall
    /\ plies = <<>>
    /\ mutated = FALSE
    /\ king_moved = {}
    /\ calls = 0
    /\ step = 0
    /\ nodes = <<>>
    /\ iterations = 0
    /\ limits = NoLimits
    /\ depth = 0
    /\ sent = <<>>
    /\ client = NewClient

(* eval_board(board, player_colour, True) *)
EvalBoardNormalised(player_colour) ==
    Query("eval_board_normalised", player_colour,
          eval_board_normalised(board, player_colour))

NextArmies ==
    \/ \E player_colour \in {"white", "black"} : EvalBoardNormalised(player_colour)
    \/ \E player_colour \in {"white", "black"} : EvalBoard(player_colour)

SpecArmies == InitArmies /\ [][NextArmies]_vars

(* ---------------------------------------------------------------------- *)
(* The rollout of MCTS.simulate                                             *)
(* ---------------------------------------------------------------------- *)

(* max_depth of simulate *)
max_depth == 30

(* A condition of the rollout loop that allows one move more than max_depth *)
rollout_continues_at_cap(d) == d <= max_depth

(* "while depth < max_depth" *)
rollout_continues(d) == d < max_depth

(* The adapter call of a round of the rollout that fails, if any. *)
RoundFaults ==
    {"none", "is_terminal raises", "get_legal_moves raises",
     "get_legal_moves empty", "apply_move raises", "apply_move None"}

(* The call of the reward that fails, if any. *)
RewardFaults == {"none", "get_reward raises"}

(* One round of the loop of simulate on current_state: the states the round *)
(* may go on with, one for each move random.choice can draw, and NoState     *)
(* where the round leaves the loop by a break.                               *)
rollout_round(current_state, fault) ==
    IF fault = "is_terminal raises" THEN {NoState}
    ELSE IF is_terminal(current_state) THEN {NoState}
    ELSE IF fault \in {"get_legal_moves raises", "get_legal_moves empty"} THEN {NoState}
    ELSE IF get_legal_moves(current_state) = {} THEN {NoState}
    ELSE IF fault \in {"apply_move raises", "apply_move None"} THEN {NoState}
    ELSE { apply_move(current_state, move) : move \in get_legal_moves(current_state) }

(* The value simulate returns for the state the loop ended in, in           *)
(* hundredths: get_reward of the adapter, 0.0 when it raises.                *)
simulate_reward(current_state, is_white, fault) ==
    IF fault = "get_reward raises" THEN 0
    ELSE get_reward(current_state, is_white)

(* node.state of the rollouts.  A rook of each side that can only go to and *)
(* fro behind its own pawns (apply_move never promotes a pawn, and nothing   *)
(* in the adapter asks for kings); a black king shut in by its own pawns     *)
(* with a white knight that can give a smothered mate; and the same with     *)
(* the mate already given.                                                   *)
Shuffle ==
    LET w1 == Put(EmptyBoard, 7, 0, Piece("Rook", "white"))
        w2 == Put(w1, 6, 0, Piece("Pawn", "white"))
        w3 == Put(w2, 6, 1, Piece("Pawn", "white"))
        w4 == Put(w3, 7, 2, Piece("Pawn", "white"))
        b1 == Put(w4, 0, 7, Piece("Rook", "black"))
        b2 == Put(b1, 1, 7, Piece("Pawn", "black"))
        b3 == Put(b2, 1, 6, Piece("Pawn", "black"))
    IN Put(b3, 0, 5, Piece("Pawn", "black"))

ShutIn ==
    LET k1 == Put(EmptyBoard, 0, 7, Piece("King", "black"))
        k2 == Put(k1, 0, 6, Piece("Pawn", "black"))
        k3 == Put(k2, 1, 6, Piece("Pawn", "black"))
    IN Put(k3, 1, 7, Piece("Pawn", "black"))

RolloutBoards ==
    { Shuffle,
      Put(ShutIn, 4, 5, Piece("Knight", "white")),
      Put(ShutIn, 2, 6, Piece("Knight", "white")) }

InitRollout ==
    /\ board \in RolloutBoards
    /\ player_turn \in {"white", "black"}
    /\ move_count = 0
    /\ material = 0
    /\ result = NoAnswer
    /\ call = NoCall
    /\ plies = <<>>
    /\ mutated = FALSE
    /\ king_moved = {}
    /\ calls = 0
    /\ step = 0
    /\ nodes = <<>>
    /\ iterations = 0
    /\ limits = NoLimits
    /\ depth = 0
    /\ sent = <<>>
    /\ client = NewClient

(* simulate(node) of an MCTS with the given is_white, up to the loop:        *)
(* current_state = node.state, depth = 0.  call is                          *)
(* <<"simulate", side, fault of the last round, position>>.                  *)
SimulateStart(is_white) ==
    /\ call = NoCall
    /\ call' = <<"simulate", IF is_white THEN "white" ELSE "black", "none",
                 IF rollout_continues(0) THEN "loop" ELSE "reward">>
    /\ depth' = 0
    /\ UNCHANGED <<board, player_turn, move_count, material, result, plies,
                   mutated, king_moved, calls, step, nodes, iterations, limits, sent, client>>

(* One round of the loop (lines 266-305) and the test of the loop's          *)
(* condition that follows it.                                                *)
SimulateRound(fault) ==
    /\ call # NoCall
    /\ call[1] = "simulate"
    /\ call[4] = "loop"
    /\ \E new_state \in rollout_round(GameState(board, player_turn), fault) :
         IF new_state = NoState
         THEN /\ call' = <<"simulate", call[2], fault, "reward">>
              /\ UNCHANGED <<board, player_turn, depth>>
         ELSE /\ board' = new_state.board
              /\ player_turn' = new_state.player_turn
              /\ depth' = depth + 1
              /\ call' = <<"simulate", call[2], fault,
                           IF rollout_continues(depth + 1) THEN "loop" ELSE "reward">>
    /\ UNCHANGED <<move_count, material, result, plies, mutated, king_moved,
                   calls, step, nodes, iterations, limits, sent, client>>

(* The reward and the return (lines 307-322) *)
SimulateReturn(fault) ==
    /\ call # NoCall
    /\ call[1] = "simulate"
    /\ call[4] = "reward"
    /\ result' = <<"simulate",
                   simulate_reward(GameState(board, player_turn), call[2] = "white", fault)>>
    /\ call' = <<"simulate", call[2], fault, "returned">>
    /\ UNCHANGED <<board, player_turn, move_count, material, plies, mutated,
                   king_moved, calls, step, nodes, iterations, limits, depth, sent, client>>

NextRollout ==
    \/ \E is_white \in BOOLEAN : SimulateStart(is_white)
    \/ \E fault \in RoundFaults : SimulateRound(fault)
    \/ \E fault \in RewardFaults : SimulateReturn(fault)

SpecRollout == InitRollout /\ [][NextRollout]_vars

(* simulate is one call that nothing interrupts: each of its steps is taken *)
SpecRolloutFair == SpecRollout /\ WF_vars(NextRollout)

(* ---------------------------------------------------------------------- *)
(* Calls after the game is over                                             *)
(* ---------------------------------------------------------------------- *)

(* The opening and two calls more that return True and leave game_over()    *)
(* True: the rook from (0,0) to (6,1), which black answers, and the rook     *)
(* from (0,7) to (7,5), to which black has no answer: white rooks on (7,5)   *)
(* and (6,1) against the black king on (7,3), black to move.                 *)
Mating == Opening \o << <<0, 0, 6, 1>>, <<0, 7, 7, 5>> >>

MaxOverCalls == 1

(* The next call of Mating *)
PlayMating ==
    /\ step < Len(Mating)
    /\ calls = 0
    /\ \E c \in {Mating[step + 1]} : Call(c[1], c[2], c[3], c[4])
    /\ step' = step + 1
    /\ calls' = calls

(* Any call once Mating has been played *)
MoveWhenOver(x, y, endx, endy) ==
    /\ step = Len(Mating)
    /\ calls < MaxOverCalls
    /\ Call(x, y, endx, endy)
    /\ calls' = calls + 1
    /\ step' = step

(* The rows the calls take their piece from: the back row of black, with    *)
(* its king and its rook                                                     *)
OverRows == {7}

NextOver ==
    \/ PlayMating
    \/ \E x \in OverRows, y \in Rows, endx \in Rows, endy \in Rows :
            MoveWhenOver(x, y, endx, endy)

SpecOver == Init /\ [][NextOver]_vars

(* ---------------------------------------------------------------------- *)
(* enpesaunt on pawns of the middle rows                                    *)
(* ---------------------------------------------------------------------- *)

(* <<piece, square, column, present, behind>>: the piece move_piece is      *)
(* asked to move and its square, on row 3 or 4; a column of the same row and *)
(* whether an enemy pawn stands there; and whether the square that pawn has  *)
(* passed over, one row further for the mover, is occupied.                  *)
EnPassantPlacements ==
    { p \in ({"Pawn", "Knight"} \X {"white", "black"}) \X ({3, 4} \X {0, 1, 6, 7})
              \X Rows \X BOOLEAN \X BOOLEAN :
        /\ p[3] # p[2][2]
        /\ ~p[4] => (~p[5] /\ p[3] = 7 - p[2][2]) }

EnPassantBoard(p) ==
    LET mover == Piece(p[1][1], p[1][2])
        x == p[2][1]
        direction == IF p[1][2] = "white" THEN 1 ELSE -1
        b1 == Put(EmptyBoard, x, p[2][2], mover)
        b2 == IF p[4] THEN Put(b1, x, p[3], Piece("Pawn", Other(p[1][2]))) ELSE b1
    IN IF p[5] THEN Put(b2, x + direction, p[3], Piece("Bishop", Other(p[1][2])))
       ELSE b2

InitEnPassant ==
    /\ board \in { EnPassantBoard(p) : p \in EnPassantPlacements }
    /\ player_turn = "white"
    /\ move_count = 0
    /\ material = 0
    /\ result = NoAnswer
    /\ call = NoCall
    /\ plies = <<>>
    /\ mutated = FALSE
    /\ king_moved = {}
    /\ calls = 0
    /\ step = 0
    /\ nodes = <<>>
    /\ iterations = 0
    /\ limits = NoLimits
    /\ depth = 0
    /\ sent = <<>>
    /\ client = NewClient

(* is_enpesaunt = self.enpesaunt(x, y, self.board[x][y].colour) of          *)
(* move_piece, for the piece on (x, y)                                       *)
Enpesaunt(x, y) ==
    /\ call = NoCall
    /\ board[x][y] # None
    /\ call' = <<"enpesaunt", x, y, board[x][y].colour>>
    /\ result' = <<"enpesaunt", enpesaunt(board, x, y, board[x][y].colour)>>
    /\ UNCHANGED <<board, player_turn, move_count, material, plies, mutated,
                   king_moved, calls, step, nodes, iterations, limits, depth, sent, client>>

NextEnPassant == \E x \in Rows, y \in Rows : Enpesaunt(x, y)

SpecEnPassant == InitEnPassant /\ [][NextEnPassant]_vars

(* ---------------------------------------------------------------------- *)
(* The adapter's two move operations                                        *)
(* ---------------------------------------------------------------------- *)

(* The boards of the states: a new board, the kings with a black pawn, the  *)
(* shuffling rooks and the shut-in king with the knight.                     *)
MoveBoards ==
    { InitialBoard,
      Put(Put(Put(EmptyBoard, 0, 0, Piece("King", "white")),
              2, 2, Piece("King", "black")), 2, 1, Piece("Pawn", "black")),
      Shuffle,
      Put(ShutIn, 4, 5, Piece("Knight", "white")) }

(* The coordinates of a destination: the rows and columns and one past each *)
(* end.                                                                      *)
MoveCoords == (0 - 1)..8

InitMoves ==
    /\ board \in MoveBoards
    /\ player_turn \in {"white", "black"}
    /\ move_count = 0
    /\ material = 0
    /\ result = NoAnswer
    /\ call = NoCall
    /\ plies = <<>>
    /\ mutated = FALSE
    /\ king_moved = {}
    /\ calls = 0
    /\ step = 0
    /\ nodes = <<>>
    /\ iterations = 0
    /\ limits = NoLimits
    /\ depth = 0
    /\ sent = <<>>
    /\ client = NewClient

(* apply_move(GameState(board, player_turn), (from_pos, to_pos)) *)
ApplyMove(from_pos, to_pos) ==
    /\ call = NoCall
    /\ call' = <<"apply_move", <<from_pos, to_pos>> >>
    /\ result' = <<"apply_move",
                   apply_move(GameState(board, player_turn), <<from_pos, to_pos>>)>>
    /\ UNCHANGED <<board, player_turn, move_count, material, plies, mutated,
                   king_moved, calls, step, nodes, iterations, limits, depth, sent, client>>

(* MCTS(game, is_white=...).run() up to its loop, for the side to move *)
RunRoot ==
    /\ RunStart(player_turn = "white", 0, FALSE)

NextMoves ==
    \/ \E from_pos \in Squares, to_pos \in MoveCoords \X MoveCoords :
            ApplyMove(from_pos, to_pos)
    \/ RunRoot

SpecMoves == InitMoves /\ [][NextMoves]_vars

(* ---------------------------------------------------------------------- *)
(* GameStates as keys of MCTS.nodes                                         *)
(* ---------------------------------------------------------------------- *)

(* The characters of the two values player_turn takes *)
characters(s) ==
    IF s = "white" THEN <<"w", "h", "i", "t", "e">> ELSE <<"b", "l", "a", "c", "k">>

(* piece.__class__.__name__[0] *)
class_letter(p) ==
    CASE p.kind = "Pawn"   -> "P"
      [] p.kind = "Knight" -> "K"
      [] p.kind = "Bishop" -> "B"
      [] p.kind = "Rook"   -> "R"
      [] p.kind = "Queen"  -> "Q"
      [] p.kind = "King"   -> "K"

(* board_repr of GameState.__hash__ from the cell (i, j) on, row by row:    *)
(* "." for None, else the first letters of the class name and the colour.   *)
RECURSIVE board_repr(_, _, _)
board_repr(b, i, j) ==
    IF i = 8 THEN <<>>
    ELSE IF j = 8 THEN board_repr(b, i + 1, 0)
    ELSE (IF b[i][j] = None THEN <<Empty>>
          ELSE <<class_letter(b[i][j]), Head(characters(b[i][j].colour))>>)
         \o board_repr(b, i, j + 1)

(* A hash whose string also tells whether each piece has moved *)
hash_with_flags(self) ==
    <<self.board>> \o characters(self.player_turn)

(* GameState.__hash__(self): hash(board_repr + self.player_turn).  The hash *)
(* of a str is a function of its characters, and is taken here as the       *)
(* string itself: two strings that differ never collide.                    *)
hash(self) == board_repr(self.board, 0, 0) \o characters(self.player_turn)

(* state in self.nodes: a key of the dict with the hash of state that is    *)
(* equal to state.                                                          *)
contains(keys, state) ==
    \E k \in keys : hash(k) = hash(state) /\ eq(k, state)

(* The keys of MCTS.nodes after expand(state): state is added unless it is  *)
(* in the dict already.                                                     *)
expand(keys, state) == IF contains(keys, state) THEN keys ELSE keys \cup {state}

(* expand(a) and then expand(b) on a new MCTS, b being the position of a    *)
(* with one change: the answer is the number of keys of MCTS.nodes after.   *)
Expand(sq, change, turn, other_turn) ==
    Query("expand", <<sq, change, turn, other_turn>>,
          Cardinality(expand(expand({}, GameState(board, turn)),
                             GameState(Vary(board, sq, change), other_turn))))

NextKeys ==
    \E sq \in EqSquares, change \in Changes, turn \in {"white", "black"},
       other_turn \in {"white", "black"} : Expand(sq, change, turn, other_turn)

SpecKeys == InitPosition /\ [][NextKeys]_vars

(* ---------------------------------------------------------------------- *)
(* NetworkedChessBoard: the moves sent to the peer                          *)
(* ---------------------------------------------------------------------- *)

(* The tuple (x, y, endx, endy) of an accepted ply *)
move_of(ply) == <<ply.from[1], ply.from[2], ply.to[1], ply.to[2]>>

(* What a call of ChessBoard.move_piece on a NetworkedChessBoard sends      *)
(* before the caller sends anything (own is what the caller sends after):   *)
(* the automatic reply is made by self.move_piece, which is                 *)
(* NetworkedChessBoard.move_piece (lines 50-54), so the reply is sent when  *)
(* it is accepted, before the call that made it returns.  accepted are the  *)
(* moves of the plies of the call in order, the caller's first.             *)
send_move(own, accepted) ==
    (IF Len(accepted) > 1 THEN Tail(accepted) ELSE <<>>) \o own

(* The fields a call of ChessBoard.move_piece leaves, and what it sends *)
Applied(out, own) ==
    /\ board' = out.st.board
    /\ player_turn' = out.st.player_turn
    /\ move_count' = out.st.move_count
    /\ material' = out.st.material
    /\ result' = IF out.ret THEN "True" ELSE "False"
    /\ plies' = out.plies
    /\ mutated' = (out.st # Current)
    /\ king_moved' = king_moved \cup
           { out.plies[i].colour : i \in
               { j \in DOMAIN out.plies : out.plies[j].kind = "King" } }
    /\ sent' = sent \o send_move(IF out.ret THEN own ELSE <<>>,
                                 [i \in DOMAIN out.plies |-> move_of(out.plies[i])])

MaxNetCalls == 2

(* NetworkedChessBoard.move_piece(x, y, endx, endy), called locally: the    *)
(* move is sent when super().move_piece returned True.                      *)
NetMovePiece(x, y, endx, endy) ==
    /\ calls < MaxNetCalls
    /\ Live
    /\ \E out \in move_piece(Current, x, y, endx, endy) :
          Applied(out, << <<x, y, endx, endy>> >>)
    /\ call' = <<"move_piece", x, y, endx, endy>>
    /\ calls' = calls + 1
    /\ UNCHANGED <<step, nodes, iterations, limits, depth, client>>

(* One round of receive_data with the move (x, y, endx, endy) read from the *)
(* socket: super().move_piece of the move, and receive_data itself sends    *)
(* nothing.                                                                 *)
ReceiveData(x, y, endx, endy) ==
    /\ calls < MaxNetCalls
    /\ Live
    /\ \E out \in move_piece(Current, x, y, endx, endy) : Applied(out, <<>>)
    /\ call' = <<"receive_data", x, y, endx, endy>>
    /\ calls' = calls + 1
    /\ UNCHANGED <<step, nodes, iterations, limits, depth, client>>

(* The rows the moves of the two sides start from *)
NetRows == {1}

NextNet ==
    \/ \E x \in NetRows, y \in Rows, endx \in Rows, endy \in Rows :
          NetMovePiece(x, y, endx, endy)
    \/ \E x \in NetRows, y \in Rows, endx \in Rows, endy \in Rows :
          ReceiveData(x, y, endx, endy)

SpecNet == Init /\ [][NextNet]_vars

(* ---------------------------------------------------------------------- *)
(* ChessClient.send_move and the loop of WebSocketThread                    *)
(* ---------------------------------------------------------------------- *)

MaxMoves == 3

MaxMessages == 2

(* The moves the user makes, in order: (from_pos, to_pos) *)
ClientMoves ==
    << <<<<1, 0>>, <<2, 0>>>>, <<<<1, 1>>, <<2, 1>>>>,
       <<<<1, 2>>, <<2, 2>>>>, <<<<1, 3>>, <<2, 3>>>> >>

(* The message ChessClient.send_move(from_pos, to_pos) builds; the username *)
(* is the same in all of them and left out.                                 *)
message(from_pos, to_pos) == <<"move", from_pos, to_pos>>

(* WebSocketThread.queue_move(move_data): self.move_to_send after it *)
queue_move(move_to_send, move_data) == move_data

(* websockets.connect(...) succeeded: self.websocket = websocket, and the   *)
(* loop begins.                                                             *)
Connect ==
    /\ client.at = "connect"
    /\ client' = [client EXCEPT !.websocket = "open", !.at = "test"]
    /\ UNCHANGED <<board, player_turn, move_count, material, result, call, plies,
                   mutated, king_moved, calls, step, nodes, iterations, limits,
                   depth, sent>>

(* ChessClient.send_move(from_pos, to_pos), on the thread of the user       *)
(* interface, while the WebSocketThread is connected: the next move of the  *)
(* user is handed to queue_move.                                            *)
SendMove ==
    /\ client.websocket = "open"
    /\ Len(client.queued) < MaxMoves
    /\ \E mv \in {ClientMoves[Len(client.queued) + 1]} :
          client' = [client EXCEPT
                        !.move_to_send = queue_move(@, message(mv[1], mv[2])),
                        !.queued = Append(@, message(mv[1], mv[2]))]
    /\ UNCHANGED <<board, player_turn, move_count, material, result, call, plies,
                   mutated, king_moved, calls, step, nodes, iterations, limits,
                   depth, sent>>

(* "while self.running: if self.move_to_send:" (lines 40-42) *)
TestMove ==
    /\ client.at = "test"
    /\ client' = [client EXCEPT
                     !.at = IF client.move_to_send # NoMessage THEN "send" ELSE "recv"]
    /\ UNCHANGED <<board, player_turn, move_count, material, result, call, plies,
                   mutated, king_moved, calls, step, nodes, iterations, limits,
                   depth, sent>>

(* "await websocket.send(json.dumps(self.move_to_send))" (line 43): what is *)
(* sent is what self.move_to_send holds when the line runs.                 *)
Send ==
    /\ client.at = "send"
    /\ client' = [client EXCEPT !.wire = Append(@, client.move_to_send),
                                !.at = "clear"]
    /\ UNCHANGED <<board, player_turn, move_count, material, result, call, plies,
                   mutated, king_moved, calls, step, nodes, iterations, limits,
                   depth, sent>>

(* "self.move_to_send = None" (line 44) *)
Clear ==
    /\ client.at = "clear"
    /\ client' = [client EXCEPT !.move_to_send = NoMessage, !.at = "recv"]
    /\ UNCHANGED <<board, player_turn, move_count, material, result, call, plies,
                   mutated, king_moved, calls, step, nodes, iterations, limits,
                   depth, sent>>

(* "data = await websocket.recv(); self.data_received.emit(data)" (lines    *)
(* 47-48): recv() returns when a message of the server has arrived.         *)
Recv ==
    /\ client.at = "recv"
    /\ client.received < client.arrived
    /\ client' = [client EXCEPT !.received = @ + 1, !.at = "test"]
    /\ UNCHANGED <<board, player_turn, move_count, material, result, call, plies,
                   mutated, king_moved, calls, step, nodes, iterations, limits,
                   depth, sent>>

(* A message of the server reaches the websocket *)
ServerMessage ==
    /\ client.websocket = "open"
    /\ client.arrived < MaxMessages
    /\ client' = [client EXCEPT !.arrived = @ + 1]
    /\ UNCHANGED <<board, player_turn, move_count, material, result, call, plies,
                   mutated, king_moved, calls, step, nodes, iterations, limits,
                   depth, sent>>

(* The steps of connect_and_receive *)
ThreadStep == Connect \/ TestMove \/ Send \/ Clear \/ Recv

NextClient == Connect \/ SendMove \/ TestMove \/ Send \/ Clear \/ Recv \/ ServerMessage

SpecClient == Init /\ [][NextClient]_vars

(* The thread of connect_and_receive keeps running while it can take a      *)
(* step; nothing makes the user move or the server send.                    *)
SpecClientFair == SpecClient /\ WF_vars(ThreadStep)

(* ---------------------------------------------------------------------- *)
(* Properties                                                               *)
(* ---------------------------------------------------------------------- *)

Colours == {"white", "black"}

(* The piece a ply moved, as it stands on the ply's destination afterwards  *)
Arrived(ply) == ply.board[ply.to[1]][ply.to[2]]

HomeRow(colour) == IF colour = "white" THEN 0 ELSE 7

PawnRow(colour) == IF colour = "white" THEN 1 ELSE 6

FarRow(colour) == IF colour = "white" THEN 7 ELSE 0

Kings(b, colour) ==
    { t \in Squares : b[t[1]][t[2]].kind = "King" /\ b[t[1]][t[2]].colour = colour }

(* Some piece of the other colour has a move onto a king of this colour *)
Attacked(b, colour) ==
    \E k \in Kings(b, colour) :
        \E s \in Squares :
            /\ b[s[1]][s[2]].colour = Other(colour)
            /\ k \in get_valid_moves(b, s[1], s[2])

(* Destinations of the en passant capture of the pawn on (x, y): the empty  *)
(* square behind an adjacent enemy pawn.                                    *)
EnPassantTargets(b, x, y) ==
    LET colour == b[x][y].colour
        direction == IF colour = "white" THEN 1 ELSE -1
    IN IF b[x][y].kind # "Pawn" THEN {}
       ELSE { t \in Squares :
                /\ t[1] = x + direction
                /\ Abs(t[2] - y) = 1
                /\ b[x][t[2]].kind = "Pawn"
                /\ b[x][t[2]].colour = Other(colour)
                /\ b[t[1]][t[2]] = None }

(* Destinations of the king on (x, y) when it castles *)
CastlingTargets(b, x, y) ==
    IF b[x][y].kind = "King" /\ x = HomeRow(b[x][y].colour) /\ y = 3
       /\ castling(b, b[x][y].colour) # "no"
    THEN {<<x, 2>>, <<x, 6>>}
    ELSE {}

(* (endx, endy) is in the full-legal move set of the piece on (x, y) *)
FullLegal(st, x, y, endx, endy) ==
    LET b == st.board
    IN /\ b[x][y] # None
       /\ b[x][y].colour = st.player_turn
       /\ <<endx, endy>> \in get_valid_moves(b, x, y)
                               \cup EnPassantTargets(b, x, y)
                               \cup CastlingTargets(b, x, y)
       /\ ~Attacked(TempMove(b, x, y, endx, endy), st.player_turn)

(* The call that led to the next state asks the king of the side to move to *)
(* castle.                                                                  *)
CastlingCall ==
    /\ call' # NoCall
    /\ <<call'[3], call'[4]>> \in CastlingTargets(board, call'[1], call'[2])
    /\ board[call'[1]][call'[2]].colour = player_turn

(* C1: move_piece returns False and changes nothing when there is no piece  *)
(* on (x, y), the piece is not of the side to move, or (endx, endy) is not  *)
(* in its full-legal move set; in every other case it changes the board and *)
(* returns True.                                                            *)
C1_RejectOrApply ==
    [][IF FullLegal(Current, call'[1], call'[2], call'[3], call'[4])
       THEN result' = "True" /\ board' # board
       ELSE /\ result' = "False"
            /\ UNCHANGED <<board, player_turn, move_count, material>>]_vars

(* C2: after each accepted move, the automatic black reply included, the    *)
(* king of the side that just moved is not attacked by any enemy piece.     *)
C2_MoverKingSafe ==
    \A i \in DOMAIN plies : ~Attacked(plies[i].board, plies[i].colour)

(* C3: each colour has exactly one King on the board in every state.        *)
C3_OneKingPerColour ==
    \A c \in Colours : Cardinality(Kings(board, c)) = 1

(* C4: every move_piece call that returns True applies exactly one move:    *)
(* move_count grows by exactly one and player_turn flips to the other       *)
(* colour.                                                                  *)
C4_OneMovePerCall ==
    [][result' = "True" =>
          /\ move_count' = move_count + 1
          /\ player_turn' = Other(player_turn)]_vars

(* C5: an accepted move leaves the moved piece flagged as moved             *)
(* (first_move = False), and a pawn that has left its starting row is not   *)
(* allowed a double step.                                                   *)
C5_MovedFlagSet ==
    [][/\ \A i \in DOMAIN plies' :
            Arrived(plies'[i]).kind = plies'[i].kind => ~Arrived(plies'[i]).first_move
       /\ \A i \in DOMAIN plies' :
            (plies'[i].kind = "Pawn" /\ plies'[i].from[1] # PawnRow(plies'[i].colour))
               => Abs(plies'[i].to[1] - plies'[i].from[1]) # 2]_vars

(* C6: castling() names a side only when the king and the rook of that     *)
(* side are unmoved and every square strictly between them is empty, and it *)
(* returns "queenside" when the king and the column-0 rook are unmoved and  *)
(* the two squares between them are empty.                                  *)
C6_CastlingNeedsClearPath ==
    \A c \in Colours :
        LET row == HomeRow(c)
            unmoved(y, k) == /\ board[row][y].kind = k
                             /\ board[row][y].colour = c
                             /\ board[row][y].first_move
            empty(cols) == \A y \in cols : board[row][y] = None
        IN /\ castling(board, c) = "queenside"
                => unmoved(3, "King") /\ unmoved(0, "Rook") /\ empty({1, 2})
           /\ castling(board, c) = "kingside"
                => unmoved(3, "King") /\ unmoved(7, "Rook") /\ empty({4, 5, 6})
           /\ (unmoved(3, "King") /\ unmoved(0, "Rook") /\ empty({1, 2}))
                => castling(board, c) = "queenside"

(* C7: once the king of a colour has made an accepted move, castling()      *)
(* never again names a side for that colour.                                *)
C7_NoCastlingAfterKingMove ==
    \A c \in king_moved : castling(board, c) = "no"

(* C8: a castling call is rejected when the king is in check or when a      *)
(* square the king passes through or lands on is attacked by an enemy       *)
(* piece.                                                                   *)
C8_NoCastlingThroughCheck ==
    [][(/\ CastlingCall
        /\ \/ Attacked(board, player_turn)
           \/ \E y \in Rows :
                /\ y # 3
                /\ y \in call'[4]..3 \cup 3..call'[4]
                /\ Attacked(TempMove(board, call'[1], 3, call'[1], y), player_turn))
       => result' = "False"]_vars

(* C9: an accepted castling call leaves the king on the destination, the    *)
(* rook on the square next to it that the king came from or crossed, the    *)
(* rook's corner empty, the king's origin empty unless the rook now stands  *)
(* there, and every other square as it was.                                 *)
C9_CastlingMovesKingAndRook ==
    [][(CastlingCall /\ result' = "True")
       => LET row == call'[1]
              endy == call'[4]
              rook_to == IF endy = 2 THEN 3 ELSE 5
              rook_from == IF endy = 2 THEN 0 ELSE 7
              after == plies'[1].board
          IN /\ after[row][endy] = board[row][3]
             /\ after[row][rook_to].kind = "Rook"
             /\ after[row][rook_to].colour = player_turn
             /\ after[row][rook_from] = None
             /\ rook_to # 3 => after[row][3] = None
             /\ \A t \in Squares :
                  (t[1] # row \/ t[2] \notin {3, endy, rook_to, rook_from})
                     => after[t[1]][t[2]] = board[t[1]][t[2]]]_vars

(* C10: a full-legal pawn move onto the far back rank is accepted, and      *)
(* after any accepted pawn move onto row 0 or row 7 the destination holds a *)
(* Queen of the pawn's colour.                                              *)
C10_PawnPromotes ==
    [][/\ (/\ FullLegal(Current, call'[1], call'[2], call'[3], call'[4])
           /\ board[call'[1]][call'[2]].kind = "Pawn"
           /\ call'[3] = FarRow(player_turn))
          => result' = "True"
       /\ \A i \in DOMAIN plies' :
            (plies'[i].kind = "Pawn" /\ plies'[i].to[1] \in {0, 7})
               => /\ Arrived(plies'[i]).kind = "Queen"
                  /\ Arrived(plies'[i]).colour = plies'[i].colour]_vars

(* The call that led to the next state asks a pawn of the side to move to   *)
(* step diagonally forward onto an empty square beside which, on the pawn's *)
(* own row, an enemy pawn stands: an en passant capture.                    *)
EnPassantCall ==
    /\ call' # NoCall
    /\ board[call'[1]][call'[2]].colour = player_turn
    /\ <<call'[3], call'[4]>> \in EnPassantTargets(board, call'[1], call'[2])

(* The last accepted ply was a double step of an enemy pawn that ended on   *)
(* square t.                                                                *)
JustDoubleStepped(t) ==
    /\ plies # <<>>
    /\ plies[Len(plies)].kind = "Pawn"
    /\ plies[Len(plies)].colour = Other(player_turn)
    /\ Abs(plies[Len(plies)].to[1] - plies[Len(plies)].from[1]) = 2
    /\ plies[Len(plies)].to = t

(* C11: an en passant capture is accepted only on the move immediately      *)
(* following the double step of the adjacent enemy pawn, and enpesaunt()    *)
(* returns False for a pawn with no enemy pawn beside it.                   *)
C11_EnPassantOnlyImmediately ==
    [][/\ (EnPassantCall /\ result' = "True")
            => JustDoubleStepped(<<call'[1], call'[4]>>)
       /\ \A s \in Squares :
            (/\ board[s[1]][s[2]].kind = "Pawn"
             /\ ~\E y \in Rows :
                    /\ Abs(y - s[2]) = 1
                    /\ board[s[1]][y].kind = "Pawn"
                    /\ board[s[1]][y].colour = Other(board[s[1]][s[2]].colour))
            => ~enpesaunt(board, s[1], s[2], board[s[1]][s[2]].colour)]_vars

(* C12: an accepted en passant capture puts the capturing pawn on the       *)
(* target square, empties its origin and the square of the captured pawn    *)
(* (row of the origin, column of the destination) and changes no other      *)
(* square.                                                                  *)
C12_EnPassantRemovesCapturedPawn ==
    [][(EnPassantCall /\ result' = "True")
       => LET x == call'[1]
              y == call'[2]
              endx == call'[3]
              endy == call'[4]
              after == plies'[1].board
          IN /\ after[endx][endy] = board[x][y]
             /\ after[x][y] = None
             /\ after[x][endy] = None
             /\ \A t \in Squares :
                  t \notin {<<x, y>>, <<endx, endy>>, <<x, endy>>}
                     => after[t[1]][t[2]] = board[t[1]][t[2]]]_vars

(* The colour is in check and none of its pieces has a full-legal move      *)
Checkmated(b, colour) ==
    /\ Attacked(b, colour)
    /\ ~ \E x \in Rows, y \in Rows, endx \in Rows, endy \in Rows :
            FullLegal([board |-> b, player_turn |-> colour], x, y, endx, endy)

(* C13: is_checkmate(colour) is true iff the colour is in check and no      *)
(* full-legal move of any of its pieces (king move, capture of the checking *)
(* piece or interposition) leaves its king out of check;                    *)
(* are_you_in_check reports 2 under the same condition.                     *)
C13_CheckmateIffNoLegalMove ==
    /\ (call # NoCall /\ call[1] = "is_checkmate")
          => (result[2] = Checkmated(board, call[2]))
    /\ (call # NoCall /\ call[1] = "are_you_in_check")
          => ((result[2] = 2) = Checkmated(board, call[2]))

(* C14: are_you_in_check(colour) reports check (1 or 2) iff some piece of   *)
(* the other colour has the king's square among its pseudo-legal            *)
(* destinations, and check_position(board, colour) gives the same verdict   *)
(* on the same board: its walk along a sliding piece's path changes nothing. *)
C14_CheckVerdictsAgree ==
    /\ (call # NoCall /\ call[1] = "are_you_in_check")
          => /\ (result[2] \in {1, 2}) = Attacked(board, call[2])
             /\ (result[2] \in {1, 2}) = (check_position(board, call[2]) = 1)
    /\ (call # NoCall /\ call[1] = "check_position")
          => /\ (result[2] = 1) = Attacked(board, call[2])
             /\ (result[2] = 1) = (are_you_in_check(board, call[2]) \in {1, 2})

(* C14 witness: check_position has reported a check that a rook or queen    *)
(* gives along a line, on a board where another sliding piece aims at the   *)
(* king from behind a piece.                                                *)
C14_Witness ==
    /\ call # NoCall /\ call[1] = "check_position" /\ result[2] = 1
    /\ \E k \in Kings(board, call[2]) :
         /\ \E s \in Squares :
              /\ board[s[1]][s[2]].colour = Other(call[2])
              /\ board[s[1]][s[2]].kind \in {"Rook", "Queen", "Bishop"}
              /\ Max(Abs(s[1] - k[1]), Abs(s[2] - k[2])) > 1
              /\ k \in get_valid_moves(board, s[1], s[2])
         /\ \E s \in Squares :
              /\ board[s[1]][s[2]].colour = Other(call[2])
              /\ board[s[1]][s[2]].kind \in {"Rook", "Queen"}
              /\ (s[1] = k[1] \/ s[2] = k[2])
              /\ k \notin get_valid_moves(board, s[1], s[2])

(* C15: move_piece returns False and apply_move returns None, both without  *)
(* changing anything, for every move with a coordinate outside 0..7,        *)
(* negative values included.                                                *)
C15_OutsideRejected ==
    [][ (call' # call /\ Len(call') = 4
           /\ Outside(call'[1], call'[2], call'[3], call'[4]))
          => /\ result' = "False"
             /\ <<board', player_turn', move_count', material'>>
                  = <<board, player_turn, move_count, material>>
             /\ apply_move(GameState(board, player_turn),
                           <<<<call'[1], call'[2]>>, <<call'[3], call'[4]>>>>) = NoState
      ]_vars

(* C16: when the side to move is checkmated, is_checkmate returns true and  *)
(* get_legal_moves for that side returns an empty sequence.                 *)
C16_MatedSideHasNoMoves ==
    (call # NoCall /\ Checkmated(board, player_turn))
        => /\ (call[1] = "is_checkmate" /\ call[2] = player_turn) => (result[2] = TRUE)
           /\ (call[1] = "get_legal_moves") => (result[2] = {})


(* C17: get_reward(state, perspective) is a number in [-1, 1]: +1 when the  *)
(* opponent of the perspective side is checkmated, -1 when the perspective  *)
(* side is checkmated, and otherwise the normalised evaluator score         *)
(* (score / max_possible_score).  Rewards are in hundredths.                *)
C17_RewardInUnitRange ==
    (call # NoCall /\ call[1] = "get_reward")
        => \E perspective \in {call[2]} :
              /\ 0 - RewardScale <= result[2] /\ result[2] <= RewardScale
              /\ Checkmated(board, Other(perspective)) => result[2] = RewardScale
              /\ Checkmated(board, perspective) => result[2] = 0 - RewardScale
              /\ (~Checkmated(board, "white") /\ ~Checkmated(board, "black"))
                    => result[2] * max_possible_score
                         = eval_board(board, perspective) * RewardScale

(* The children of the root, as positions in nodes *)
RootChildren == IF nodes = <<>> THEN <<>> ELSE nodes[1].children

(* C18: best_move returns the move of a root child whose visit count is     *)
(* the greatest among the root's children, and None exactly when the root   *)
(* has no children.                                                         *)
C18_BestMoveMostVisited ==
    (call # NoCall /\ call[1] = "best_move")
        => /\ (result[2] = NoMove) = (RootChildren = <<>>)
           /\ RootChildren # <<>>
                => \E i \in DOMAIN RootChildren :
                      /\ nodes[RootChildren[i]].move = result[2]
                      /\ \A j \in DOMAIN RootChildren :
                            nodes[RootChildren[j]].visits
                               <= nodes[RootChildren[i]].visits

(* C18 witness: best_move has returned the move of a child visited more     *)
(* often than another child whose average value is higher.                  *)
C18_Witness ==
    /\ call # NoCall /\ call[1] = "best_move"
    /\ \E i, j \in DOMAIN RootChildren :
          /\ nodes[RootChildren[i]].move = result[2]
          /\ nodes[RootChildren[j]].visits > 0
          /\ nodes[RootChildren[i]].visits > nodes[RootChildren[j]].visits
          /\ nodes[RootChildren[j]].value * nodes[RootChildren[i]].visits
                > nodes[RootChildren[i]].value * nodes[RootChildren[j]].visits

(* The positions on the parent chain from position n up to the root *)
RECURSIVE Chain(_, _)
Chain(ns, n) == IF n = NoParent THEN {} ELSE {n} \cup Chain(ns, ns[n].parent)

(* visits and value of the node at position n before the step; a node the   *)
(* step created starts with none.                                           *)
CountsBefore(n) ==
    IF n \in DOMAIN nodes THEN <<nodes[n].visits, nodes[n].value>> ELSE <<0, 0>>

(* C19: backpropagate(node, reward) adds exactly 1 to visits and reward to  *)
(* value on every node of the parent chain from node up to and including    *)
(* the root, and changes visits and value of no other node; Node.update(v)  *)
(* adds exactly 1 visit and v to value.                                     *)
C19_BackpropagateChainOnly ==
    [][ /\ iterations' # iterations
           => /\ 1 \in Chain(nodes', call'[2])
              /\ \A n \in DOMAIN nodes' :
                    <<nodes'[n].visits, nodes'[n].value>>
                       = IF n \in Chain(nodes', call'[2])
                         THEN <<CountsBefore(n)[1] + 1, CountsBefore(n)[2] + call'[3]>>
                         ELSE CountsBefore(n)
        /\ (call = NoCall /\ call' # NoCall /\ call'[1] = "update")
           => /\ nodes'[1].visits = 1
              /\ nodes'[1].value = call'[2]
      ]_vars

(* C19 witness: an iteration has backpropagated a reward other than 0 from  *)
(* a child of the root that had been visited before, while another child    *)
(* keeps the visit and the value it had.                                    *)
C19_Witness ==
    /\ call # NoCall /\ call[1] = "iterate" /\ call[2] # 1 /\ call[3] # 0
    /\ nodes[call[2]].parent = 1
    /\ nodes[call[2]].visits = 2
    /\ nodes[1].visits = iterations
    /\ \E i \in DOMAIN RootChildren :
          /\ RootChildren[i] # call[2]
          /\ nodes[RootChildren[i]].visits = 1
          /\ nodes[RootChildren[i]].value # 0

(* The children of the node at position p, as a set of positions *)
ChildrenOf(ns, p) == { ns[p].children[i] : i \in DOMAIN ns[p].children }

(* Some child of the node at position p has no visit yet *)
HasUnvisited(ns, p) == \E d \in ChildrenOf(ns, p) : ns[d].visits = 0

(* C20: selection takes an unvisited child at once, ahead of every visited  *)
(* sibling: the node an iteration selects below a root with an unvisited    *)
(* child is an unvisited child, no child gains a second visit while a       *)
(* sibling has none, and after as many iterations as the root has children  *)
(* every root child has been visited.                                       *)
C20_UnvisitedChildFirst ==
    [][ iterations' # iterations
        => /\ HasUnvisited(nodes, 1)
              => /\ call'[2] \in ChildrenOf(nodes, 1)
                 /\ nodes[call'[2]].visits = 0
                 /\ best_child(nodes, 1) = call'[2]
           /\ \A p \in DOMAIN nodes : \A c \in ChildrenOf(nodes, p) :
                 (nodes[c].visits >= 1 /\ HasUnvisited(nodes, p))
                    => nodes'[c].visits = nodes[c].visits
           /\ iterations' >= Len(nodes'[1].children)
              => \A c \in ChildrenOf(nodes', 1) : nodes'[c].visits >= 1
      ]_vars

(* C20 witness: the iteration that completes the first round over a root    *)
(* with several children: the last unvisited child was selected although a  *)
(* visited sibling holds a positive value, and now every child has exactly  *)
(* one visit.                                                               *)
C20_Witness ==
    /\ call # NoCall /\ call[1] = "iterate"
    /\ Len(RootChildren) >= 3
    /\ iterations = Len(RootChildren)
    /\ call[2] = RootChildren[Len(RootChildren)]
    /\ call[3] < 0
    /\ \A i \in DOMAIN RootChildren : nodes[RootChildren[i]].visits = 1
    /\ \E i \in DOMAIN RootChildren : nodes[RootChildren[i]].value > 0

C22_FailureEndsOnlyTheBranch ==
    [][ (call' # NoCall /\ call'[1] \in {"run", "iterate"}
         /\ call'[Len(call')] # "none")
        => /\ result' = NoAnswer
           /\ iterations' # iterations
              => /\ nodes'[1].visits = nodes[1].visits + 1
                 /\ nodes'[call'[2]].visits = nodes[call'[2]].visits + 1
                 /\ call'[3] \in {0, get_reward(nodes[call'[2]].state,
                                                nodes[1].state.player_turn = "white")}
      ]_vars

(* Every cell of b and c holds a piece of the same kind and colour, or is   *)
(* empty in both.                                                           *)
SameCells(b, c) ==
    \A i \in Rows, j \in Rows :
       /\ b[i][j].kind = c[i][j].kind
       /\ b[i][j].colour = c[i][j].colour

(* C23: two GameStates compare equal iff every cell holds a piece of the    *)
(* same kind and colour, or is empty in both, and the turns match; the      *)
(* first_move flags do not count.                                           *)
C23_EqualityByKindColourTurn ==
    (call # NoCall /\ call[1] = "eq")
    => result[2] = (/\ SameCells(board, Vary(board, call[2][1], call[2][2]))
                    /\ call[2][3] = call[2][4])

(* C23 witness: two states that differ in a first_move flag only have       *)
(* compared equal.                                                          *)
C23_Witness ==
    /\ call # NoCall /\ call[1] = "eq"
    /\ call[2][2] = "first_move"
    /\ Vary(board, call[2][1], call[2][2]) # board
    /\ result[2] = TRUE

(* The position b seen from the other side: rows in reverse order and the   *)
(* colours exchanged.                                                       *)
Mirror(b) ==
    [i \in Rows |-> [j \in Rows |->
        IF b[7 - i][j] = None THEN None
        ELSE [b[7 - i][j] EXCEPT !.colour = Other(@)]]]

(* C24: the table bonus is taken in White's orientation and mirrored for    *)
(* Black: a position scores for one colour what its colour-swapped mirror   *)
(* image scores for the other, and a position that is its own mirror image  *)
(* scores 0.                                                                *)
C24_MirrorImageScoresTheSame ==
    (call # NoCall /\ call[1] = "eval_board")
    => /\ result[2] = eval_board(Mirror(board), Other(call[2]))
       /\ Mirror(board) = board => result[2] = 0

(* What the pieces of colour c on the board b are worth: base value and     *)
(* position bonus of each.                                                  *)
RECURSIVE WorthOn(_, _, _)
WorthOn(b, c, squares) ==
    IF squares = {} THEN 0
    ELSE LET sq == CHOOSE s \in squares : TRUE
         IN (IF b[sq[1]][sq[2]] # None /\ b[sq[1]][sq[2]].colour = c
             THEN base_value(b[sq[1]][sq[2]]) + position_bonus(b[sq[1]][sq[2]], sq[1], sq[2])
             ELSE 0)
            + WorthOn(b, c, squares \ {sq})

(* C25: eval_board(board, "white", False) = -eval_board(board, "black",     *)
(* False): the score is what the pieces of the perspective colour are worth *)
(* minus what the others are worth, and evaluating leaves the board as it   *)
(* was.                                                                     *)
C25_PerspectivesAreOpposite ==
    [][ (call' # NoCall /\ call'[1] = "eval_board")
        => /\ result'[2] = 0 - eval_board(board, Other(call'[2]))
           /\ result'[2] = WorthOn(board, call'[2], Squares)
                             - WorthOn(board, Other(call'[2]), Squares)
           /\ board' = board
      ]_vars

(* C25 witness: a position with pieces of both colours has been scored for  *)
(* black, and the score is not 0.                                           *)
C25_Witness ==
    /\ call # NoCall /\ call[1] = "eval_board" /\ call[2] = "black"
    /\ result[2] > 0
    /\ \E sq \in Squares : board[sq[1]][sq[2]].colour = "white"
    /\ \E sq \in Squares : board[sq[1]][sq[2]].colour = "black"

(* The score for colour c of the piece on the square sq of b alone on the   *)
(* board.                                                                   *)
AloneOn(b, sq, c) ==
    eval_board(Put(EmptyBoard, sq[1], sq[2], b[sq[1]][sq[2]]), c)

RECURSIVE SumAlone(_, _, _)
SumAlone(b, c, squares) ==
    IF squares = {} THEN 0
    ELSE LET sq == CHOOSE s \in squares : TRUE
         IN AloneOn(b, sq, c) + SumAlone(b, c, squares \ {sq})

Terms ==
    [k \in Kinds |->
        { base_value(Piece(k, c)) + position_bonus(Piece(k, c), sq[1], sq[2]) :
            sq \in Squares, c \in {"white", "black"} }]

GreatestTerm == [k \in Kinds |-> CHOOSE t \in Terms[k] : \A u \in Terms[k] : u <= t]

LeastTerm == [k \in Kinds |-> CHOOSE t \in Terms[k] : \A u \in Terms[k] : t <= u]

(* No army with the promotions c, wherever it stands, is worth more *)
GreatestArmy(c) ==
    GreatestTerm["King"] + (1 + c["Queen"]) * GreatestTerm["Queen"]
      + (2 + c["Rook"]) * GreatestTerm["Rook"]
      + (2 + c["Bishop"]) * GreatestTerm["Bishop"]
      + (2 + c["Knight"]) * GreatestTerm["Knight"]
      + (8 - (c["Queen"] + c["Rook"] + c["Bishop"] + c["Knight"])) * GreatestTerm["Pawn"]

(* No piece is worth less than 0 and no army more than 40000 *)
ArmiesWithinMaximum ==
    /\ \A k \in Kinds : LeastTerm[k] >= 0
    /\ \A c \in Compositions : GreatestArmy(c) <= 40000

(* C27: the normalised score is the raw score divided by 40000; no piece    *)
(* is worth less than 0 and no army of 16 pieces with promoted pawns more   *)
(* than 40000, so the normalised score lies in [-1, 1]; for the starting    *)
(* position it lies strictly between -0.02 and 0 for white.                 *)
C27_NormalisedWithinUnit ==
    (call # NoCall /\ call[1] = "eval_board_normalised")
    => /\ 25 * 40000 = 1000000
       /\ result[2] = eval_board(board, call[2]) * 25
       /\ 0 - 1000000 <= result[2] /\ result[2] <= 1000000
       /\ ArmiesWithinMaximum
       /\ (board = InitialBoard /\ call[2] = "white")
          => (0 - 20000 < result[2] /\ result[2] < 0)

(* C27 witness: an army of a king and nine queens among its 16 pieces,      *)
(* unopposed, has been given a normalised score above 0.75.                 *)
C27_Witness ==
    /\ call # NoCall /\ call[1] = "eval_board_normalised"
    /\ Cardinality({sq \in Squares : board[sq[1]][sq[2]].kind = "Queen"}) = 9
    /\ Cardinality({sq \in Squares : board[sq[1]][sq[2]] # None}) = 16
    /\ result[2] > 750000

(* C28: FEN round trip: the string board_array_to_fen returns, read back,   *)
(* has each piece of the board on its own rank and file and nothing else,   *)
(* and the side to move of the board.                                       *)
C28_FenRoundTrip ==
    (call # NoCall /\ call[1] = "board_array_to_fen")
    => /\ \A x \in Rows, y \in Rows :
             Board(result[2]).pieces[square(y, 7 - x)]
                = IF board[x][y] = None THEN Empty ELSE symbol(board[x][y])
       /\ Board(result[2]).turn = IF player_turn = "white" THEN "w" ELSE "b"

(* C29: an iteration whose selected node is a leaf that is not terminal     *)
(* expands it: the leaf gets one child for each legal move of its state     *)
(* that apply_move accepts, so the tree grows below the root's children.    *)
C29_LeafIsExpanded ==
    [][ (iterations' # iterations
         /\ nodes[select(nodes, 1)].children = <<>>
         /\ ~is_terminal(nodes[select(nodes, 1)].state))
        => /\ Len(nodes'[select(nodes, 1)].children)
                = Cardinality({ m \in get_legal_moves(nodes[select(nodes, 1)].state) :
                                  apply_move(nodes[select(nodes, 1)].state, m) # NoState })
           /\ \A i \in DOMAIN nodes'[select(nodes, 1)].children :
                 nodes'[nodes'[select(nodes, 1)].children[i]].parent = select(nodes, 1)
      ]_vars

(* C30: run() makes at most `iterations` iterations and stops earlier only  *)
(* between iterations, when a time limit is set; each iteration it starts   *)
(* is backpropagated to the root, so root.visits is the number of           *)
(* iterations made, all through the run and when it returns, and is above 0 *)
(* when iterations > 0 and no time limit is set.                            *)
C30_RootVisitsCountIterations ==
    (call # NoCall /\ call[1] \in {"run", "iterate", "best_move"} /\ nodes # <<>>)
    => /\ iterations <= limits.iterations
       /\ nodes[1].visits = iterations
       /\ call[1] = "best_move"
          => /\ ~limits.time_limit => iterations = limits.iterations
             /\ (limits.iterations > 0 /\ ~limits.time_limit) => nodes[1].visits > 0

(* C30 witness: a run asked for more than two iterations has returned       *)
(* after two, its time limit having run out, with two visits of the root.   *)
C30_Witness ==
    /\ call # NoCall /\ call[1] = "best_move" /\ nodes # <<>>
    /\ limits.time_limit
    /\ limits.iterations > 2
    /\ iterations = 2
    /\ nodes[1].visits = 2

(* The reward of the state s as the side colour sees it, in hundredths:     *)
(* a win when the other side is checkmated, a loss when colour is, else the *)
(* evaluation of the board for colour.                                       *)
RewardFor(s, colour) ==
    IF are_you_in_check(s.board, Other(colour)) = 2 THEN RewardScale
    ELSE IF are_you_in_check(s.board, colour) = 2 THEN 0 - RewardScale
    ELSE eval_board(s.board, colour)

(* The round of the rollout that starts in state s with the given fault has *)
(* a reason to stop.                                                         *)
RoundMustStop(s, fault) ==
    \/ fault # "none"
    \/ game_over(s.board)
    \/ get_legal_moves(s) = {}

(* One step of simulate: a round applies a move exactly when it has no      *)
(* reason to stop, and then depth grows by one within the cap; a round that  *)
(* stops leaves the state alone and goes to the reward; the value returned   *)
(* is a number, the reward of the last state for the searching side (0 when  *)
(* get_reward raised).                                                       *)
SimulateStep ==
    /\ (call # NoCall /\ call'[4] # "returned" /\ call # call')
          => \E s \in {GameState(board, player_turn)} :
               IF RoundMustStop(s, call'[3])
               THEN /\ call'[4] = "reward"
                    /\ UNCHANGED <<board, player_turn, depth>>
               ELSE /\ depth' = depth + 1
                    /\ depth' <= max_depth
                    /\ <<board', player_turn'>> # <<board, player_turn>>
                    /\ call'[4] = "reward" <=> depth' = max_depth
    /\ (call # NoCall /\ call'[4] = "returned")
          => /\ result'[2] \in Int
             /\ result'[2] = IF call'[3] = "get_reward raises" THEN 0
                             ELSE RewardFor(GameState(board, player_turn), call[2])
             /\ UNCHANGED <<board, player_turn, depth>>

C31_WitnessMate ==
    /\ call # NoCall
    /\ call[4] = "returned"
    /\ depth = 1
    /\ game_over(board)
    /\ result[2] = RewardScale

(* The number of pieces of the colour on the board b *)
PiecesOf(b, colour) ==
    Cardinality({ s \in Squares : b[s[1]][s[2]].colour = colour })

(* C32: no accepted move captures a piece of the mover's own colour: the    *)
(* destination of every accepted ply of a call, the automatic reply          *)
(* included, was empty or held an enemy piece on the board the ply was made  *)
(* on, and the ply did not leave the mover with fewer pieces.                *)
C32_NoOwnCapture ==
    [][\A i \in DOMAIN plies' :
         \E before \in {IF i = 1 THEN board ELSE plies'[i - 1].board} :
            /\ before[plies'[i].to[1]][plies'[i].to[2]].colour # plies'[i].colour
            /\ PiecesOf(plies'[i].board, plies'[i].colour)
                  >= PiecesOf(before, plies'[i].colour)]_vars

(* C33: the terminal state is absorbing: a move_piece call made when        *)
(* game_over() is True is not accepted, and game_over() is True after it.    *)
C33_GameOverAbsorbing ==
    [][game_over(board) => (result' = "False" /\ game_over(board'))]_vars

(* An enemy pawn stands next to (x, y) on column y2 of the same row, and    *)
(* the square behind it, one row further for colour, is empty.               *)
PawnBeside(b, x, y, y2, colour) ==
    /\ y2 \in Rows
    /\ Abs(y2 - y) = 1
    /\ b[x][y2].kind = "Pawn"
    /\ b[x][y2].colour = Other(colour)
    /\ b[x + (IF colour = "white" THEN 1 ELSE -1)][y2] = None

(* C34: enpesaunt(x, y, colour) returns True only if (x, y) holds a pawn    *)
(* and an enemy pawn stands on the same row on column y - 1 or y + 1, both   *)
(* on the board, with the square behind it empty; a neighbour on either side *)
(* is found whatever the pawn's column, and no square on the opposite edge   *)
(* of the board decides the answer.                                          *)
C34_EnPassantNeighbours ==
    (call # NoCall /\ call[1] = "enpesaunt")
       => (result[2] <=>
             /\ board[call[2]][call[3]].kind = "Pawn"
             /\ \E y2 \in {call[3] - 1, call[3] + 1} :
                   PawnBeside(board, call[2], call[3], y2, call[4]))

(* C35: the adapter's two move operations agree: apply_move(s, m) returns a *)
(* state iff m is among get_legal_moves(s); so after the root expansion of   *)
(* run() the root has exactly one child for each move of get_legal_moves,    *)
(* and the state of each child has the other side to move.                   *)
C35_ApplyMoveIffLegal ==
    /\ (call # NoCall /\ call[1] = "apply_move")
          => ((result[2] # NoState)
                 <=> call[2] \in get_legal_moves(GameState(board, player_turn)))
    /\ (call # NoCall /\ call[1] = "run")
          => \E legal \in {get_legal_moves(nodes[1].state)} :
               /\ Len(nodes[1].children) = Cardinality(legal)
               /\ { nodes[c].move : c \in Members(nodes[1].children) } = legal
               /\ \A c \in Members(nodes[1].children) :
                     /\ nodes[c].state # NoState
                     /\ nodes[c].state.player_turn = Other(nodes[1].state.player_turn)

(* C35 witness: a run has given the root of a new board a child for each   *)
(* of the 20 moves of the side to move.                                      *)
C35_Witness ==
    /\ call # NoCall
    /\ call[1] = "run"
    /\ board = InitialBoard
    /\ Len(nodes[1].children) = 20

(* apply_move has returned a state for a move, and None for another move of *)
(* a piece of the side to move.                                              *)
C35_WitnessApplied ==
    /\ call # NoCall
    /\ call[1] = "apply_move"
    /\ result[2] # NoState

C35_WitnessRefused ==
    /\ call # NoCall
    /\ call[1] = "apply_move"
    /\ result[2] = NoState
    /\ board[call[2][1][1]][call[2][1][2]].colour = player_turn

(* The sum of the visits of the nodes at the positions of the list *)
RECURSIVE SumVisits(_, _)
SumVisits(ns, list) ==
    IF list = <<>> THEN 0 ELSE ns[Head(list)].visits + SumVisits(ns, Tail(list))

(* C36: visit counts are conserved in the search tree: between the          *)
(* iterations of run() the visits of a node are the backpropagations that    *)
(* passed through it (each iteration adds one visit to every node on the     *)
(* chain from the node simulated to the root and none elsewhere), a node     *)
(* with children has at least as many visits as its children together, and  *)
(* a root with children has exactly as many.                                 *)
C36_VisitsConserved ==
    /\ []((call # NoCall /\ call[1] \in {"run", "iterate", "best_move"})
             => /\ \A n \in DOMAIN nodes :
                     nodes[n].children # <<>>
                        => nodes[n].visits >= SumVisits(nodes, nodes[n].children)
                /\ (nodes # <<>> /\ nodes[1].children # <<>>)
                     => nodes[1].visits = SumVisits(nodes, nodes[1].children))
    /\ [][iterations' # iterations
             => \A n \in DOMAIN nodes' :
                   nodes'[n].visits = CountsBefore(n)[1]
                        + (IF n \in Chain(nodes', call'[2]) THEN 1 ELSE 0)]_vars

(* C36 witness: after five iterations the root of a tree with three root    *)
(* children has five visits, which its children share 2, 2 and 1 or alike.   *)
C36_Witness ==
    /\ call # NoCall /\ call[1] = "iterate"
    /\ Len(nodes[1].children) = 3
    /\ iterations = 5
    /\ nodes[1].visits = 5
    /\ SumVisits(nodes, nodes[1].children) = 5
    /\ \A c \in Members(nodes[1].children) : nodes[c].visits \in {1, 2, 3}

(* C37: GameState hashing is consistent with equality: two states that are  *)
(* equal have the same hash, so expand() of a state equal to a key of        *)
(* MCTS.nodes finds that key and adds none.                                  *)
C37_EqualStatesHashAlike ==
    (call # NoCall /\ call[1] = "expand")
       => LET a == GameState(board, call[2][3])
              b == GameState(Vary(board, call[2][1], call[2][2]), call[2][4])
          IN eq(a, b) => (hash(a) = hash(b) /\ result[2] = 1)

(* C37 witness: a new board expanded with white to move, and again with     *)
(* the first_move flag of the piece on (0, 3) changed: the states are      *)
(* equal though not the same, hash alike, and MCTS.nodes keeps one key.     *)
C37_Witness ==
    /\ call # NoCall /\ call[1] = "expand"
    /\ board = InitialBoard
    /\ call[2] = <<<<0, 3>>, "first_move", "white", "white">>
    /\ GameState(board, "white") # GameState(Vary(board, <<0, 3>>, "first_move"), "white")
    /\ eq(GameState(board, "white"), GameState(Vary(board, <<0, 3>>, "first_move"), "white"))
    /\ result[2] = 1

(* C38: a NetworkedChessBoard sends its moves in exactly the order in which *)
(* they were applied to its board, and only the moves made locally: after a *)
(* local move_piece the moves it sent are the moves of the plies it         *)
(* applied, in that order, and a move applied by receive_data sends         *)
(* nothing.                                                                 *)
C38_SentInOrderApplied ==
    [][ /\ (call' # NoCall /\ call'[1] = "move_piece")
            => sent' = sent \o [i \in DOMAIN plies' |-> move_of(plies'[i])]
        /\ (call' # NoCall /\ call'[1] = "receive_data") => sent' = sent ]_vars

(* How often the message m is among the messages of the sequence *)
Times(seq, m) == Cardinality({i \in DOMAIN seq : seq[i] = m})

(* C39: every move handed to queue_move while the thread is running and     *)
(* connected is eventually sent to the server exactly once: a queued move   *)
(* that has not been sent is still the move to send (no later queue_move    *)
(* overwrote it), no move is sent twice, and every queued move is sent in   *)
(* the end, whether or not a message of the server arrives.                 *)
C39_QueuedMoveSentOnce ==
    /\ [](\A i \in DOMAIN client.queued :
             /\ Times(client.wire, client.queued[i]) <= 1
             /\ Times(client.wire, client.queued[i]) = 0
                   => client.move_to_send = client.queued[i])
    /\ \A k \in 1..MaxMoves :
          (Len(client.queued) >= k)
             ~> (Len(client.queued) >= k /\ Times(client.wire, client.queued[k]) = 1)

====
